---- MODULE Spec2Model ----
(***************************************************************************)
(* Verification model of markdown-threads: the anchor engine               *)
(* (src/anchorEngine.ts, src/utils/markdown.ts), the sidecar aggregate     *)
(* mutators and the sidecar store (SidecarManager in src/models/types.ts). *)
(*                                                                         *)
(* The module holds several specifications over one set of variables:      *)
(*   SpecDetect    detectStaleThreads, apply the updates, detect again     *)
(*   SpecReparent  findReparentCandidate on arbitrary section lists        *)
(*   SpecSidecar   sequences of SidecarManager mutator calls               *)
(*   SpecParse     parseMarkdownSections and findSectionByLine on texts    *)
(*   SpecHash      computeContentHash on pairs of texts                    *)
(*   SpecAnchor    createAnchor followed by findAnchoredSection            *)
(*   SpecCache     parseSections / getSections / clearCache on documents   *)
(*   SpecRead      readSidecar on sidecar files of any content             *)
(*   SpecPersist   one caller mutating, writing and reading the sidecar    *)
(*   SpecStore     two handler runs and a reader on one sidecar file       *)
(*   SpecNotify    writeSidecar calls and the change events they fire      *)
(*   SpecLock      the panel's message handlers on an open or resolved     *)
(*                 thread                                                  *)
(*   SpecDelete    two handler runs deleting entries of one thread         *)
(*   SpecPreview   the preview panel's listener on the change events       *)
(*   SpecPublish   runs of the publish command with failing git steps      *)
(*   SpecFresh     parse, anchor a thread to a section, look the anchor up *)
(*   SpecComment   the addComment handler's anchor on an edited document   *)
(*   SpecRounds    document changes, resolve/reopen and detection rounds   *)
(*   SpecOwner     two users' previews on a thread one of them created     *)
(*   SpecRefresh   saves, change events, visibility and the update timer   *)
(*   SpecNull      the preview's handlers on an absent or malformed file   *)
(*   SpecFail      two overlapping writeSidecar calls, one of which fails  *)
(* Each specification leaves the variables of the others at their idle     *)
(* values.                                                                 *)
(***************************************************************************)
EXTENDS Integers, Sequences, FiniteSets, TLC

VARIABLES
    sections,      \* MarkdownSection[] handed to the anchor engine
    threads,       \* CommentThread[] handed to detectStaleThreads
    sectionCache,  \* AnchorEngine.sectionCache: document uri -> MarkdownSection[]
    updates,       \* result of the last detectStaleThreads call
    applied,       \* the updates the caller has applied to the threads
    anchorArg,     \* CommentAnchor handed to findReparentCandidate
    candidate,     \* result of the last findReparentCandidate call
    anchored,      \* result of the last findAnchoredSection call
    phase,         \* position of the anchor-engine scenario
    sidecar,       \* the in-memory SidecarFile the mutators work on
    nextUuid,      \* number of values uuidv4() has returned so far
    prev,          \* the aggregate as it was before the last mutator call
    call,          \* the last mutator call: its name and arguments
    ret,           \* what the last mutator call returned
    calls,         \* number of mutator calls made so far
    drafts,        \* result of getDraftThreads when it was the last call
    content,       \* the document text handed to parseMarkdownSections
    parsed,        \* result of the last parseMarkdownSections call
    lineArg,       \* line handed to findSectionByLine
    lineFound,     \* result of the last findSectionByLine call
    hashArgs,      \* the texts and maxChars handed to computeContentHash
    hashes,        \* the values computeContentHash returned for them
    textPhase,     \* position of the text scenario
    docs,          \* open documents: uri -> current text
    cacheLog,      \* the engine calls and text changes made so far
    returned,      \* the list the last parseSections / getSections returned
    disk,          \* the file system: directory and file contents
    runs,          \* the callers of the SidecarManager: position and locals of each
    journal,       \* the readSidecar / writeSidecar calls and completions so far
    events,        \* the onDidChange events fired so far
    writing,       \* SidecarManager.writing
    pendingResets, \* pending setTimeout callbacks that reset writing
    issued,        \* number of values uuidv4() has returned to the callers
    git,           \* the repository: the branch checked out and the sidecar committed
    panel          \* the preview panel: its document, visibility and update timer

anchorVars  == <<sections, threads, sectionCache, updates, applied, anchorArg, candidate,
                 anchored, phase>>
sidecarVars == <<sidecar, nextUuid, prev, call, ret, calls, drafts>>
textVars    == <<content, parsed, lineArg, lineFound, hashArgs, hashes, textPhase>>
cacheVars   == <<docs, cacheLog, returned>>
storeVars   == <<disk, runs, journal, events, writing, pendingResets, issued>>
hostVars    == <<git, panel>>
engineVars  == <<anchorVars, sidecarVars, textVars, cacheVars>>
vars        == <<anchorVars, sidecarVars, textVars, cacheVars, storeVars, hostVars>>

\* The variables a specification of one group leaves alone
nonAnchorVars  == <<sidecarVars, textVars, cacheVars, storeVars, hostVars>>
nonSidecarVars == <<anchorVars, textVars, cacheVars, storeVars, hostVars>>
nonTextVars    == <<anchorVars, sidecarVars, cacheVars, storeVars, hostVars>>
nonStoreVars   == <<anchorVars, sidecarVars, textVars, cacheVars, hostVars>>

----------------------------------------------------------------------------
(* Bounds and value domains                                                *)

MaxSections == 2
MaxThreads  == 2
MaxReparentSections == 3
MaxCalls    == 5
MaxDocLines == 4
MaxAnchorLine == 7
MaxTextLen  == 3
MaxCacheOps == 5
MaxClientOps == 6
MaxReads    == 2
MaxWrites   == 2
MaxMessages == 2
MaxUpdates  == 1
MaxHashChars == 3

Slugs    == {"intro", "setup"}
Hashes   == {"h1", "h2"}
Lines    == {0, 5}
Statuses == {"open", "resolved", "stale"}
DocUri   == "file:///doc.md"

----------------------------------------------------------------------------
(* Data model (src/models/types.ts)                                        *)

CommentAnchor(slug, hash, line) ==
    [sectionSlug |-> slug, contentHash |-> hash, lineHint |-> line]

MarkdownSection(slug, hash, start) ==
    [heading |-> slug, slug |-> slug, level |-> 1, startLine |-> start,
     endLine |-> start + 1, content |-> hash, contentHash |-> hash]

NoReactions == [present |-> FALSE, list |-> <<>>]

NoAnchor == CommentAnchor("", "", 0)

\* The JavaScript value undefined, as the value of a member that is absent
Undefined == "undefined"

\* The anchor of a thread read from a file that has no anchor member
NoAnchorRead == CommentAnchor(Undefined, Undefined, 0)

CommentEntry(id, author, body) ==
    [id |-> id, author |-> author, body |-> body, created |-> "t0",
     edited |-> "null", reactions |-> NoReactions]

CommentThread(id, anchor, status, isDraft, entries) ==
    [id |-> id, anchor |-> anchor, status |-> status, isDraft |-> isDraft,
     thread |-> entries]

\* uuidv4(): the n-th value returned; distinct calls return distinct values
Uuid(n) == "uuid-" \o ToString(n)

\* Array.prototype.find / findIndex: given the set of indices (1-based) whose
\* element satisfies the callback, the first of them; 0 stands for
\* JavaScript's undefined / -1
FirstIndex(matching) ==
    IF matching = {} THEN 0
    ELSE CHOOSE i \in matching : \A j \in matching : i <= j

----------------------------------------------------------------------------
(* Strings. A text is a sequence of characters; the operators below are    *)
(* the JavaScript string and RegExp operations the sources use.            *)

LF == "\n"
CR == "\r"
\* the grave accent U+0060, which a TLA+ string cannot hold
Backtick == "grave"

\* \s of a JavaScript RegExp, and the characters String.prototype.trim strips
WhitespaceChars == {" ", "\t", LF, CR}

\* \w of a JavaScript RegExp, over the characters the texts are made of
WordChars == {"a", "b", "A", "B", "1", "_"}

\* String.prototype.toLowerCase on one character
LowerChar(c) == IF c = "A" THEN "a" ELSE IF c = "B" THEN "b" ELSE c

toLowerCase(str) == [k \in DOMAIN str |-> LowerChar(str[k])]

\* String.prototype.substring(start, end): both arguments are clamped to
\* 0..length, and swapped when start > end
substring(str, start, end) ==
    LET Clamp(x) == IF x < 0 THEN 0 ELSE IF x > Len(str) THEN Len(str) ELSE x
        lo == IF Clamp(start) <= Clamp(end) THEN Clamp(start) ELSE Clamp(end)
        hi == IF Clamp(start) <= Clamp(end) THEN Clamp(end) ELSE Clamp(start)
    IN  SubSeq(str, lo + 1, hi)

\* String.prototype.trim
trim(str) ==
    LET keep == {k \in DOMAIN str : str[k] \notin WhitespaceChars} IN
    IF keep = {} THEN <<>>
    ELSE SubSeq(str, CHOOSE k \in keep : \A j \in keep : k <= j,
                     CHOOSE k \in keep : \A j \in keep : k >= j)

\* replace(/\r\n/g, '\n')
RECURSIVE ReplaceCRLF(_)
ReplaceCRLF(str) ==
    IF str = <<>> THEN <<>>
    ELSE IF Len(str) >= 2 /\ str[1] = CR /\ str[2] = LF
         THEN <<LF>> \o ReplaceCRLF(SubSeq(str, 3, Len(str)))
         ELSE <<str[1]>> \o ReplaceCRLF(Tail(str))

\* replace(/\r/g, '\n')
ReplaceCR(str) == [k \in DOMAIN str |-> IF str[k] = CR THEN LF ELSE str[k]]

\* String.prototype.split('\n'): always at least one line
RECURSIVE SplitLines(_)
SplitLines(str) ==
    LET breaks == {k \in DOMAIN str : str[k] = LF} IN
    IF breaks = {} THEN <<str>>
    ELSE LET k == CHOOSE b \in breaks : \A c \in breaks : b <= c IN
         <<SubSeq(str, 1, k - 1)>> \o SplitLines(SubSeq(str, k + 1, Len(str)))

\* Array.prototype.join(sep)
RECURSIVE Join(_, _)
Join(strs, sep) ==
    IF strs = <<>> THEN <<>>
    ELSE IF Len(strs) = 1 THEN strs[1]
    ELSE strs[1] \o sep \o Join(Tail(strs), sep)

\* Number of leading characters of str that are in the set chars
RECURSIVE LeadingRun(_, _)
LeadingRun(str, chars) ==
    IF str = <<>> \/ str[1] \notin chars THEN 0
    ELSE 1 + LeadingRun(Tail(str), chars)

\* the test of the fence RegExp, /^(G{3,}|~{3,})/ with G the grave accent
IsFenceLine(line) ==
    LeadingRun(line, {Backtick}) >= 3 \/ LeadingRun(line, {"~"}) >= 3

\* line.match(/^(#{1,6})\s+(.+)$/): 1 to 6 '#', then whitespace, then at
\* least one more character. \s+ is greedy but gives back its last
\* character when nothing else is left for (.+), so group 2 is what follows
\* the whitespace run, or the run's last character when the run ends the line.
HeadingMatch(line) ==
    LET hashes_ == LeadingRun(line, {"#"})
        rest    == SubSeq(line, hashes_ + 1, Len(line))
        spaces  == LeadingRun(rest, WhitespaceChars)
    IN  IF hashes_ \in 1..6 /\ spaces >= 1 /\ Len(rest) >= 2
        THEN [matched |-> TRUE, level |-> hashes_,
              text |-> IF spaces < Len(rest)
                       THEN SubSeq(rest, spaces + 1, Len(rest))
                       ELSE SubSeq(rest, Len(rest), Len(rest))]
        ELSE [matched |-> FALSE, level |-> 0, text |-> <<>>]

\* replace(/\s+/g, '-') and replace(/-+/g, '-'): every maximal run of
\* characters of the set becomes one '-'
RECURSIVE ReplaceRuns(_, _)
ReplaceRuns(str, chars) ==
    IF str = <<>> THEN <<>>
    ELSE IF str[1] \in chars
         THEN <<"-">> \o ReplaceRuns(SubSeq(str, LeadingRun(str, chars) + 1, Len(str)), chars)
         ELSE <<str[1]>> \o ReplaceRuns(Tail(str), chars)

\* replace(/^-+|-+$/g, '')
TrimHyphens(str) ==
    LET keep == {k \in DOMAIN str : str[k] # "-"} IN
    IF keep = {} THEN <<>>
    ELSE SubSeq(str, CHOOSE k \in keep : \A j \in keep : k <= j,
                     CHOOSE k \in keep : \A j \in keep : k >= j)

----------------------------------------------------------------------------
(* src/utils/hash.ts                                                       *)

DefaultMaxChars == 200

\* crypto.createHash('sha256').update(text).digest('hex').substring(0, 16):
\* a value determined by the text, different texts giving different values
Sha256Hex16(text) == <<"sha256">> \o text

\* A computeContentHash that hashes the whole content
computeContentHashUntruncated(text, maxChars) ==
    Sha256Hex16(text)

computeContentHash(text, maxChars) ==
    LET truncated == substring(text, 0, maxChars) IN
    Sha256Hex16(truncated)

slugify(text) ==
    LET lowered  == trim(toLowerCase(text))
        stripped == SelectSeq(lowered,
                      LAMBDA c : c \in WordChars \cup WhitespaceChars \cup {"-"})
        hyphened == ReplaceRuns(stripped, WhitespaceChars)
        collapsed == ReplaceRuns(hyphened, {"-"})
    IN  TrimHyphens(collapsed)

----------------------------------------------------------------------------
(* src/utils/markdown.ts                                                   *)

\* findSectionBySlug: index of the first section with that slug, 0 if none
findSectionBySlug(secs, slug) ==
    FirstIndex({i \in DOMAIN secs : secs[i].slug = slug})

hasContentDrifted(section, storedHash) == section.contentHash # storedHash

\* The section the parser has open: open = FALSE stands for null
NoCurrentSection ==
    [open |-> FALSE, heading |-> <<>>, slug |-> <<>>, level |-> 0, startLine |-> 0]

\* The local variables of parseMarkdownSections before the loop
ParseStart ==
    [sections |-> <<>>, currentSection |-> NoCurrentSection,
     contentLines |-> <<>>, inCodeBlock |-> FALSE]

\* The section pushed when one is closed at line index endLine
ClosedSection(st, endLine) ==
    LET sectionContent == trim(Join(st.contentLines, <<LF>>)) IN
    [heading |-> st.currentSection.heading,
     slug |-> st.currentSection.slug,
     level |-> st.currentSection.level,
     startLine |-> st.currentSection.startLine,
     endLine |-> endLine,
     content |-> sectionContent,
     contentHash |-> computeContentHash(sectionContent, DefaultMaxChars)]

\* currentSection && currentSection.heading: an empty heading is falsy
HasOpenSection(st) ==
    st.currentSection.open /\ st.currentSection.heading # <<>>

\* A loop body that closes a section one line after the next heading
ParseStepLateEnd(st, i, line) ==
    IF IsFenceLine(line)
    THEN [st EXCEPT !.inCodeBlock = ~st.inCodeBlock,
                    !.contentLines = IF st.currentSection.open
                                     THEN Append(@, line) ELSE @]
    ELSE LET headingMatch == IF ~st.inCodeBlock THEN HeadingMatch(line)
                             ELSE [matched |-> FALSE, level |-> 0, text |-> <<>>]
         IN  IF headingMatch.matched
             THEN LET heading == trim(headingMatch.text) IN
                  [sections |-> IF HasOpenSection(st)
                                THEN Append(st.sections, ClosedSection(st, i + 1))
                                ELSE st.sections,
                   currentSection |-> [open |-> TRUE, heading |-> heading,
                                       slug |-> slugify(heading),
                                       level |-> headingMatch.level,
                                       startLine |-> i],
                   contentLines |-> <<>>,
                   inCodeBlock |-> st.inCodeBlock]
             ELSE IF st.currentSection.open
                  THEN [st EXCEPT !.contentLines = Append(@, line)]
                  ELSE st

\* A loop body that looks for headings inside fenced code blocks as well
ParseStepIgnoringFences(st, i, line) ==
    IF IsFenceLine(line)
    THEN [st EXCEPT !.inCodeBlock = ~st.inCodeBlock,
                    !.contentLines = IF st.currentSection.open
                                     THEN Append(@, line) ELSE @]
    ELSE LET headingMatch == HeadingMatch(line)
         IN  IF headingMatch.matched
             THEN LET heading == trim(headingMatch.text) IN
                  [sections |-> IF HasOpenSection(st)
                                THEN Append(st.sections, ClosedSection(st, i))
                                ELSE st.sections,
                   currentSection |-> [open |-> TRUE, heading |-> heading,
                                       slug |-> slugify(heading),
                                       level |-> headingMatch.level,
                                       startLine |-> i],
                   contentLines |-> <<>>,
                   inCodeBlock |-> st.inCodeBlock]
             ELSE IF st.currentSection.open
                  THEN [st EXCEPT !.contentLines = Append(@, line)]
                  ELSE st

\* The body of the loop of parseMarkdownSections for the line at the
\* 0-based index i
ParseStep(st, i, line) ==
    IF IsFenceLine(line)
    THEN [st EXCEPT !.inCodeBlock = ~st.inCodeBlock,
                    !.contentLines = IF st.currentSection.open
                                     THEN Append(@, line) ELSE @]
    ELSE LET headingMatch == IF ~st.inCodeBlock THEN HeadingMatch(line)
                             ELSE [matched |-> FALSE, level |-> 0, text |-> <<>>]
         IN  IF headingMatch.matched
             THEN LET heading == trim(headingMatch.text) IN
                  [sections |-> IF HasOpenSection(st)
                                THEN Append(st.sections, ClosedSection(st, i))
                                ELSE st.sections,
                   currentSection |-> [open |-> TRUE, heading |-> heading,
                                       slug |-> slugify(heading),
                                       level |-> headingMatch.level,
                                       startLine |-> i],
                   contentLines |-> <<>>,
                   inCodeBlock |-> st.inCodeBlock]
             ELSE IF st.currentSection.open
                  THEN [st EXCEPT !.contentLines = Append(@, line)]
                  ELSE st

RECURSIVE ParseLoop(_, _, _)
ParseLoop(st, i, lines) ==
    IF i >= Len(lines) THEN st
    ELSE ParseLoop(ParseStep(st, i, lines[i + 1]), i + 1, lines)

\* The lines parseMarkdownSections scans: line endings normalised, split
NormalizedLines(text) == SplitLines(ReplaceCR(ReplaceCRLF(text)))

parseMarkdownSections(text) ==
    LET lines == NormalizedLines(text)
        st    == ParseLoop(ParseStart, 0, lines)
    IN  IF HasOpenSection(st)
        THEN Append(st.sections, ClosedSection(st, Len(lines)))
        ELSE st.sections

\* findSectionByLine: index of the first section containing the line, 0 if none
findSectionByLine(secs, line) ==
    FirstIndex({i \in DOMAIN secs : line >= secs[i].startLine /\ line < secs[i].endLine})

----------------------------------------------------------------------------
(* src/anchorEngine.ts                                                     *)

\* A createAnchor that stores the heading where the content hash belongs
createAnchorStoringHeading(section) ==
    CommentAnchor(section.slug, section.heading, section.startLine)

createAnchor(section) ==
    CommentAnchor(section.slug, section.contentHash, section.startLine)

\* findAnchoredSection: found = FALSE stands for the null result
findAnchoredSection(secs, anchor) ==
    LET i == findSectionBySlug(secs, anchor.sectionSlug) IN
    IF i = 0
    THEN [found |-> FALSE, index |-> 0, isStale |-> FALSE]
    ELSE [found |-> TRUE, index |-> i,
          isStale |-> hasContentDrifted(secs[i], anchor.contentHash)]

\* sectionCache.set(uri, sections)
CacheSet(cache, uri, secs) ==
    [u \in DOMAIN cache \cup {uri} |-> IF u = uri THEN secs ELSE cache[u]]

\* parseSections: the cache after the call and the list returned
parseSections(cache, uri, text) ==
    LET secs == parseMarkdownSections(text) IN
    [cache |-> CacheSet(cache, uri, secs), ret |-> secs]

\* A getSections that never looks into the cache
getSectionsAlwaysParsing(cache, uri, text) ==
    parseSections(cache, uri, text)

\* getSections: a cached list, the empty one included, is returned as it is
getSections(cache, uri, text) ==
    IF uri \in DOMAIN cache
    THEN [cache |-> cache, ret |-> cache[uri]]
    ELSE parseSections(cache, uri, text)

\* clearCache: sectionCache.delete(documentUri)
clearCache(cache, uri) ==
    [u \in DOMAIN cache \ {uri} |-> cache[u]]

\* A detectStaleThreads that also auto-transitions resolved threads
DetectOneTouchingResolved(secs, thrs, i) ==
    LET thread == thrs[i]
        result == findAnchoredSection(secs, thread.anchor)
    IN  IF ~result.found \/ result.isStale
        THEN IF thread.status # "stale"
             THEN <<[thread |-> i, newStatus |-> "stale"]>>
             ELSE <<>>
        ELSE IF thread.status = "stale"
             THEN <<[thread |-> i, newStatus |-> "open"]>>
             ELSE <<>>

\* A detectStaleThreads that re-emits stale for a thread that is already stale
DetectOneDuplicateStale(secs, thrs, i) ==
    LET thread == thrs[i]
        result == findAnchoredSection(secs, thread.anchor)
    IN  IF thread.status = "resolved" THEN <<>>
        ELSE IF ~result.found \/ result.isStale
             THEN <<[thread |-> i, newStatus |-> "stale"]>>
        ELSE IF thread.status = "stale"
             THEN <<[thread |-> i, newStatus |-> "open"]>>
        ELSE <<>>

\* A detectStaleThreads that never turns a stale thread open again
DetectOneNeverReopening(secs, thrs, i) ==
    LET thread == thrs[i]
        result == findAnchoredSection(secs, thread.anchor)
    IN  IF thread.status = "resolved" THEN <<>>
        ELSE IF ~result.found
             THEN IF thread.status # "stale"
                  THEN <<[thread |-> i, newStatus |-> "stale"]>>
                  ELSE <<>>
        ELSE IF result.isStale /\ thread.status # "stale"
             THEN <<[thread |-> i, newStatus |-> "stale"]>>
        ELSE <<>>

\* One iteration of the loop of detectStaleThreads: the updates pushed for
\* the thread at index i (a reference to the thread is its index).
DetectOne(secs, thrs, i) ==
    LET thread == thrs[i]
        result == findAnchoredSection(secs, thread.anchor)
    IN  IF thread.status = "resolved" THEN <<>>
        ELSE IF ~result.found
             THEN IF thread.status # "stale"
                  THEN <<[thread |-> i, newStatus |-> "stale"]>>
                  ELSE <<>>
        ELSE IF result.isStale /\ thread.status # "stale"
             THEN <<[thread |-> i, newStatus |-> "stale"]>>
        ELSE IF ~result.isStale /\ thread.status = "stale"
             THEN <<[thread |-> i, newStatus |-> "open"]>>
        ELSE <<>>

\* A loop that walks the threads from the last to the first
RECURSIVE DetectLoopReversed(_, _, _)
DetectLoopReversed(secs, thrs, i) ==
    IF i > Len(thrs) THEN <<>>
    ELSE DetectLoopReversed(secs, thrs, i + 1) \o DetectOne(secs, thrs, i)

RECURSIVE DetectLoop(_, _, _)
DetectLoop(secs, thrs, i) ==
    IF i > Len(thrs) THEN <<>>
    ELSE DetectOne(secs, thrs, i) \o DetectLoop(secs, thrs, i + 1)

detectStaleThreads(secs, thrs) == DetectLoop(secs, thrs, 1)

\* The caller's side: thread.status := newStatus for each update, in order
RECURSIVE ApplyUpdates(_, _)
ApplyUpdates(thrs, ups) ==
    IF ups = <<>> THEN thrs
    ELSE ApplyUpdates(
           [thrs EXCEPT ![Head(ups).thread].status = Head(ups).newStatus],
           Tail(ups))

\* A findReparentCandidate that tries the content hash before the line hint
findReparentCandidateHashFirst(secs, anchor) ==
    LET byLine == FirstIndex({i \in DOMAIN secs : secs[i].startLine = anchor.lineHint})
        byHash == FirstIndex({i \in DOMAIN secs : secs[i].contentHash = anchor.contentHash})
    IN  IF byHash # 0 THEN byHash
        ELSE IF byLine # 0 THEN byLine
        ELSE 0

\* findReparentCandidate: index of the chosen section, 0 for null
findReparentCandidate(secs, anchor) ==
    LET byLine == FirstIndex({i \in DOMAIN secs : secs[i].startLine = anchor.lineHint})
        byHash == FirstIndex({i \in DOMAIN secs : secs[i].contentHash = anchor.contentHash})
    IN  IF byLine # 0 THEN byLine
        ELSE IF byHash # 0 THEN byHash
        ELSE 0

----------------------------------------------------------------------------
(* SidecarManager mutators (src/models/types.ts, sidecarManager part).     *)
(* Each mutator is an operator from the aggregate and the arguments to     *)
(* the aggregate after the call (sc) and the returned value (ret).         *)

\* A returned value: a thread or an entry (named by its id), null, a
\* boolean (ok), or nothing (void)
Ret(kind, ok, id) == [kind |-> kind, ok |-> ok, id |-> id]
NoRet == Ret("none", FALSE, "")

\* A mutator call: index is the JavaScript (0-based) commentIndex, arg the
\* remaining argument (status, author, body or the new anchor's slug)
Call(op, threadId, commentId, index, arg) ==
    [op |-> op, threadId |-> threadId, commentId |-> commentId, index |-> index, arg |-> arg]
NoCall == Call("none", "", "", 0, "")

createEmptySidecar(docName) ==
    [doc |-> docName, version |-> "1.0", comments |-> <<>>]

\* sidecar.comments.find(t => t.id === threadId), as an index; 0 if none
ThreadIndex(sc, threadId) ==
    FirstIndex({i \in DOMAIN sc.comments : sc.comments[i].id = threadId})

\* thread.thread.findIndex(c => c.id === commentId), 1-based; 0 if none
EntryIndex(thread, commentId) ==
    FirstIndex({k \in DOMAIN thread.thread : thread.thread[k].id = commentId})

\* Array.prototype.splice(i, 1) at the 1-based index i
RemoveAt(seq, i) ==
    [k \in 1..(Len(seq) - 1) |-> IF k < i THEN seq[k] ELSE seq[k + 1]]

\* addThread: {...thread, id: uuidv4()} pushed to sidecar.comments
addThread(sc, thread, uuid) ==
    LET newThread == [thread EXCEPT !.id = uuid] IN
    [sc  |-> [sc EXCEPT !.comments = Append(@, newThread)],
     ret |-> Ret("thread", TRUE, uuid)]

\* An addReply that falls back to the first thread when the id is unknown
addReplyFallingBack(sc, threadId, entry, uuid) ==
    LET found == ThreadIndex(sc, threadId)
        t == IF found = 0 /\ Len(sc.comments) > 0 THEN 1 ELSE found
    IN  IF t = 0 THEN [sc |-> sc, ret |-> Ret("null", FALSE, "")]
        ELSE LET newEntry == [entry EXCEPT !.id = uuid] IN
             [sc  |-> [sc EXCEPT !.comments[t].thread = Append(@, newEntry),
                                 !.comments[t].isDraft = TRUE],
              ret |-> Ret("entry", TRUE, uuid)]

addReply(sc, threadId, entry, uuid) ==
    LET t == ThreadIndex(sc, threadId) IN
    IF t = 0 THEN [sc |-> sc, ret |-> Ret("null", FALSE, "")]
    ELSE LET newEntry == [entry EXCEPT !.id = uuid] IN
         [sc  |-> [sc EXCEPT !.comments[t].thread = Append(@, newEntry),
                             !.comments[t].isDraft = TRUE],
          ret |-> Ret("entry", TRUE, uuid)]

deleteThread(sc, threadId) ==
    LET index == ThreadIndex(sc, threadId) IN
    IF index = 0 THEN [sc |-> sc, ret |-> Ret("boolean", FALSE, "")]
    ELSE [sc  |-> [sc EXCEPT !.comments = RemoveAt(@, index)],
          ret |-> Ret("boolean", TRUE, "")]

\* A deleteComment that leaves the emptied thread in the aggregate
deleteCommentKeepingEmptyThread(sc, threadId, commentIndex) ==
    LET t == ThreadIndex(sc, threadId) IN
    IF t = 0 \/ commentIndex < 0 \/ commentIndex >= Len(sc.comments[t].thread)
    THEN [sc |-> sc, ret |-> Ret("boolean", FALSE, "")]
    ELSE [sc  |-> [sc EXCEPT !.comments[t].thread = RemoveAt(@, commentIndex + 1)],
          ret |-> Ret("boolean", TRUE, "")]

\* A deleteComment without the range check: splice(i, 1) counts a negative
\* i from the end and removes nothing for an i past the end
deleteCommentNoRangeCheck(sc, threadId, commentIndex) ==
    LET t == ThreadIndex(sc, threadId) IN
    IF t = 0 THEN [sc |-> sc, ret |-> Ret("boolean", FALSE, "")]
    ELSE LET len == Len(sc.comments[t].thread)
             pos == IF commentIndex >= 0 THEN commentIndex
                    ELSE IF len + commentIndex >= 0 THEN len + commentIndex ELSE 0
             spliced == IF pos >= len THEN sc
                        ELSE [sc EXCEPT !.comments[t].thread = RemoveAt(@, pos + 1)]
         IN  [sc  |-> IF Len(spliced.comments[t].thread) = 0
                      THEN deleteThread(spliced, threadId).sc
                      ELSE spliced,
              ret |-> Ret("boolean", TRUE, "")]

\* deleteComment: commentIndex is 0-based
deleteComment(sc, threadId, commentIndex) ==
    LET t == ThreadIndex(sc, threadId) IN
    IF t = 0 \/ commentIndex < 0 \/ commentIndex >= Len(sc.comments[t].thread)
    THEN [sc |-> sc, ret |-> Ret("boolean", FALSE, "")]
    ELSE LET spliced == [sc EXCEPT !.comments[t].thread = RemoveAt(@, commentIndex + 1)] IN
         [sc  |-> IF Len(spliced.comments[t].thread) = 0
                  THEN deleteThread(spliced, threadId).sc
                  ELSE spliced,
          ret |-> Ret("boolean", TRUE, "")]

\* A deleteCommentById that splices the entry out itself and so leaves a
\* thread without entries in the aggregate
deleteCommentByIdSplicing(sc, threadId, commentId) ==
    LET t == ThreadIndex(sc, threadId) IN
    IF t = 0 THEN [sc |-> sc, ret |-> Ret("boolean", FALSE, "")]
    ELSE LET idx == EntryIndex(sc.comments[t], commentId) IN
         IF idx = 0 THEN [sc |-> sc, ret |-> Ret("boolean", FALSE, "")]
         ELSE [sc  |-> [sc EXCEPT !.comments[t].thread = RemoveAt(@, idx)],
               ret |-> Ret("boolean", TRUE, "")]

\* A deleteCommentById that hands the 1-based position of the entry to
\* deleteComment, whose index is 0-based
deleteCommentByIdOffByOne(sc, threadId, commentId) ==
    LET t == ThreadIndex(sc, threadId) IN
    IF t = 0 THEN [sc |-> sc, ret |-> Ret("boolean", FALSE, "")]
    ELSE LET idx == EntryIndex(sc.comments[t], commentId) IN
         IF idx = 0 THEN [sc |-> sc, ret |-> Ret("boolean", FALSE, "")]
         ELSE deleteComment(sc, threadId, idx)

deleteCommentById(sc, threadId, commentId) ==
    LET t == ThreadIndex(sc, threadId) IN
    IF t = 0 THEN [sc |-> sc, ret |-> Ret("boolean", FALSE, "")]
    ELSE LET idx == EntryIndex(sc.comments[t], commentId) IN
         IF idx = 0 THEN [sc |-> sc, ret |-> Ret("boolean", FALSE, "")]
         ELSE deleteComment(sc, threadId, idx - 1)

\* A toggleReaction that empties the reactions when it removes an author
toggleReactionClearingOnRemove(sc, threadId, commentId, author) ==
    LET t == ThreadIndex(sc, threadId) IN
    IF t = 0 THEN [sc |-> sc, ret |-> Ret("boolean", FALSE, "")]
    ELSE LET c == EntryIndex(sc.comments[t], commentId) IN
         IF c = 0 THEN [sc |-> sc, ret |-> Ret("boolean", FALSE, "")]
         ELSE LET list == sc.comments[t].thread[c].reactions.list
                  idx  == FirstIndex({k \in DOMAIN list : list[k] = author})
              IN  IF idx = 0
                  THEN [sc  |-> [sc EXCEPT !.comments[t].thread[c].reactions =
                                     [present |-> TRUE, list |-> Append(list, author)]],
                        ret |-> Ret("boolean", TRUE, "")]
                  ELSE [sc  |-> [sc EXCEPT !.comments[t].thread[c].reactions =
                                     [present |-> TRUE, list |-> <<>>]],
                        ret |-> Ret("boolean", FALSE, "")]

\* A toggleReaction that adds the author whether present or not
toggleReactionAlwaysAdding(sc, threadId, commentId, author) ==
    LET t == ThreadIndex(sc, threadId) IN
    IF t = 0 THEN [sc |-> sc, ret |-> Ret("boolean", FALSE, "")]
    ELSE LET c == EntryIndex(sc.comments[t], commentId) IN
         IF c = 0 THEN [sc |-> sc, ret |-> Ret("boolean", FALSE, "")]
         ELSE [sc  |-> [sc EXCEPT !.comments[t].thread[c].reactions =
                            [present |-> TRUE, list |-> Append(@.list, author)]],
               ret |-> Ret("boolean", TRUE, "")]

\* toggleReaction: an absent reactions field becomes [] before the toggle
toggleReaction(sc, threadId, commentId, author) ==
    LET t == ThreadIndex(sc, threadId) IN
    IF t = 0 THEN [sc |-> sc, ret |-> Ret("boolean", FALSE, "")]
    ELSE LET c == EntryIndex(sc.comments[t], commentId) IN
         IF c = 0 THEN [sc |-> sc, ret |-> Ret("boolean", FALSE, "")]
         ELSE LET list == sc.comments[t].thread[c].reactions.list
                  idx  == FirstIndex({k \in DOMAIN list : list[k] = author})
              IN  IF idx = 0
                  THEN [sc  |-> [sc EXCEPT !.comments[t].thread[c].reactions =
                                     [present |-> TRUE, list |-> Append(list, author)]],
                        ret |-> Ret("boolean", TRUE, "")]
                  ELSE [sc  |-> [sc EXCEPT !.comments[t].thread[c].reactions =
                                     [present |-> TRUE, list |-> RemoveAt(list, idx)]],
                        ret |-> Ret("boolean", FALSE, "")]

\* editComment: now is new Date().toISOString()
editComment(sc, threadId, commentId, newBody, now) ==
    LET t == ThreadIndex(sc, threadId) IN
    IF t = 0 THEN [sc |-> sc, ret |-> Ret("null", FALSE, "")]
    ELSE LET c == EntryIndex(sc.comments[t], commentId) IN
         IF c = 0 THEN [sc |-> sc, ret |-> Ret("null", FALSE, "")]
         ELSE [sc  |-> [sc EXCEPT !.comments[t].thread[c].body = newBody,
                                  !.comments[t].thread[c].edited = now],
               ret |-> Ret("entry", TRUE, commentId)]

\* An updateThreadStatus that sets the status of every thread
updateThreadStatusOfAll(sc, threadId, status) ==
    LET t == ThreadIndex(sc, threadId) IN
    IF t = 0 THEN [sc |-> sc, ret |-> Ret("boolean", FALSE, "")]
    ELSE [sc  |-> [sc EXCEPT !.comments = [i \in DOMAIN sc.comments |->
                                             [sc.comments[i] EXCEPT !.status = status,
                                                                    !.isDraft = TRUE]]],
          ret |-> Ret("boolean", TRUE, "")]

updateThreadStatus(sc, threadId, status) ==
    LET t == ThreadIndex(sc, threadId) IN
    IF t = 0 THEN [sc |-> sc, ret |-> Ret("boolean", FALSE, "")]
    ELSE [sc  |-> [sc EXCEPT !.comments[t].status = status,
                             !.comments[t].isDraft = TRUE],
          ret |-> Ret("boolean", TRUE, "")]

getDraftThreads(sc) ==
    SelectSeq(sc.comments, LAMBDA t : t.isDraft)

\* A markAllPublished that passes over the resolved threads
markAllPublishedSkippingResolved(sc) ==
    [sc  |-> [sc EXCEPT !.comments = [i \in DOMAIN sc.comments |->
                                        IF sc.comments[i].status = "resolved"
                                        THEN sc.comments[i]
                                        ELSE [sc.comments[i] EXCEPT !.isDraft = FALSE]]],
     ret |-> Ret("void", TRUE, "")]

markAllPublished(sc) ==
    [sc  |-> [sc EXCEPT !.comments = [i \in DOMAIN sc.comments |->
                                        [sc.comments[i] EXCEPT !.isDraft = FALSE]]],
     ret |-> Ret("void", TRUE, "")]

\* A reparentThread that keeps the thread's previous status
reparentThreadKeepingStatus(sc, threadId, newAnchor) ==
    LET t == ThreadIndex(sc, threadId) IN
    IF t = 0 THEN [sc |-> sc, ret |-> Ret("boolean", FALSE, "")]
    ELSE [sc  |-> [sc EXCEPT !.comments[t].anchor = newAnchor,
                             !.comments[t].isDraft = TRUE],
          ret |-> Ret("boolean", TRUE, "")]

\* reparentThread: the method is called by the preview panel and by the
\* tests, its body is not part of the available sources; modelled from the
\* specification (4.5) and the tests
reparentThread(sc, threadId, newAnchor) ==
    LET t == ThreadIndex(sc, threadId) IN
    IF t = 0 THEN [sc |-> sc, ret |-> Ret("boolean", FALSE, "")]
    ELSE [sc  |-> [sc EXCEPT !.comments[t].anchor = newAnchor,
                             !.comments[t].status = "open",
                             !.comments[t].isDraft = TRUE],
          ret |-> Ret("boolean", TRUE, "")]

----------------------------------------------------------------------------
(* JSON texts. A text is a sequence of tokens: the braces of the top-level *)
(* object, one token per member (doc, version, a comments member that is   *)
(* not an array), the brackets of the comments array and one token per     *)
(* element of it. Writing a file stores tokens, so a file can hold a       *)
(* prefix of a text or parts of two texts.                                 *)

Tok(t, val) == [t |-> t, val |-> val]

\* A member value that is a string, or one of another type
JString(str) == [type |-> "string", str |-> str]
JOther(type) == [type |-> type, str |-> ""]

EntryKeys  == {"id", "author", "body", "created", "edited"}
ThreadKeys == {"id", "anchor", "status", "isDraft", "thread"}

\* JSON.stringify of a CommentEntry: a member whose value is undefined
\* (reactions of an entry nobody reacted to) is left out
EntryJson(e) ==
    [keys |-> EntryKeys \cup (IF e.reactions.present THEN {"reactions"} ELSE {}),
     id |-> e.id, author |-> e.author, body |-> e.body, created |-> e.created,
     edited |-> e.edited, reactions |-> e.reactions.list]

\* The CommentEntry JSON.parse gives back: an absent member reads as undefined
EntryFromJson(j) ==
    [id      |-> IF "id" \in j.keys THEN j.id ELSE Undefined,
     author  |-> IF "author" \in j.keys THEN j.author ELSE Undefined,
     body    |-> IF "body" \in j.keys THEN j.body ELSE Undefined,
     created |-> IF "created" \in j.keys THEN j.created ELSE Undefined,
     edited  |-> IF "edited" \in j.keys THEN j.edited ELSE Undefined,
     reactions |-> IF "reactions" \in j.keys
                   THEN [present |-> TRUE, list |-> j.reactions]
                   ELSE NoReactions]

\* A JSON.stringify that writes the entries of a thread newest first
ThreadJsonNewestFirst(t) ==
    [keys |-> ThreadKeys, id |-> t.id, anchor |-> t.anchor, status |-> t.status,
     isDraft |-> t.isDraft,
     thread |-> [k \in DOMAIN t.thread |-> EntryJson(t.thread[Len(t.thread) + 1 - k])]]

\* JSON.stringify of a CommentThread
ThreadJson(t) ==
    [keys |-> ThreadKeys, id |-> t.id, anchor |-> t.anchor, status |-> t.status,
     isDraft |-> t.isDraft,
     thread |-> [k \in DOMAIN t.thread |-> EntryJson(t.thread[k])]]

ThreadFromJson(j) ==
    [id      |-> IF "id" \in j.keys THEN j.id ELSE Undefined,
     anchor  |-> IF "anchor" \in j.keys THEN j.anchor ELSE NoAnchorRead,
     status  |-> IF "status" \in j.keys THEN j.status ELSE Undefined,
     isDraft |-> IF "isDraft" \in j.keys THEN j.isDraft ELSE FALSE,
     thread  |-> IF "thread" \in j.keys
                 THEN [k \in DOMAIN j.thread |-> EntryFromJson(j.thread[k])]
                 ELSE <<>>]

\* JSON.stringify(sidecar, null, 2)
JsonStringify(sc) ==
    << Tok("{", <<>>), Tok("doc", JString(sc.doc)), Tok("version", JString(sc.version)),
       Tok("comments[", <<>>) >>
    \o [i \in DOMAIN sc.comments |-> Tok("item", ThreadJson(sc.comments[i]))]
    \o << Tok("]", <<>>), Tok("}", <<>>) >>

\* What JSON.parse has read so far: the members of the top-level object
NoMembers ==
    [keys |-> {}, doc |-> JOther("undefined"), version |-> JOther("undefined"),
     commentsType |-> "undefined", comments |-> <<>>]

\* The members between the braces: pos is the 1-based index of the next
\* token, last the index of the closing brace; ok = FALSE is a SyntaxError
RECURSIVE ParseMembers(_, _, _, _)
ParseMembers(text, pos, last, acc) ==
    IF pos = last THEN [ok |-> TRUE, members |-> acc]
    ELSE LET tok == text[pos] IN
         IF tok.t = "doc"
         THEN ParseMembers(text, pos + 1, last,
                  [acc EXCEPT !.keys = @ \cup {"doc"}, !.doc = tok.val])
         ELSE IF tok.t = "version"
         THEN ParseMembers(text, pos + 1, last,
                  [acc EXCEPT !.keys = @ \cup {"version"}, !.version = tok.val])
         ELSE IF tok.t = "comments"
         THEN ParseMembers(text, pos + 1, last,
                  [acc EXCEPT !.keys = @ \cup {"comments"}, !.commentsType = tok.val.type,
                              !.comments = <<>>])
         ELSE IF tok.t = "comments["
         THEN LET closers == {k \in (pos + 1)..(last - 1) : text[k].t # "item"} IN
              IF closers = {} THEN [ok |-> FALSE, members |-> acc]
              ELSE LET close == CHOOSE k \in closers : \A j \in closers : k <= j IN
                   IF text[close].t # "]" THEN [ok |-> FALSE, members |-> acc]
                   ELSE ParseMembers(text, close + 1, last,
                            [acc EXCEPT !.keys = @ \cup {"comments"},
                                        !.commentsType = "array",
                                        !.comments = [k \in 1..(close - pos - 1) |->
                                                        ThreadFromJson(text[pos + k].val)]])
         ELSE [ok |-> FALSE, members |-> acc]

\* JSON.parse(content): ok = FALSE is a SyntaxError; a text that is the
\* single token null parses to null
JsonParse(text) ==
    IF Len(text) = 1 /\ text[1].t = "null"
    THEN [ok |-> TRUE, type |-> "null", members |-> NoMembers]
    ELSE IF Len(text) >= 2 /\ text[1].t = "{" /\ text[Len(text)].t = "}"
    THEN LET r == ParseMembers(text, 2, Len(text), NoMembers) IN
         [ok |-> r.ok, type |-> "object", members |-> r.members]
    ELSE [ok |-> FALSE, type |-> "undefined", members |-> NoMembers]

----------------------------------------------------------------------------
(* The file system: dir maps a path to its inode (0: no such file), data   *)
(* an inode to the tokens stored in it. An open file descriptor is an      *)
(* inode, which outlives a rename or an unlink of its path.                *)

DocBase == "/w/doc"
DocPath == DocBase \o ".md"

\* A second document of the workspace, and the path of a document
OtherDocBase == "/w/other"
DocBases == {DocBase, OtherDocBase}
DocPathOf(docBase) == docBase \o ".md"
DocName == "doc.md"

\* getSidecarPath: the document path is given without its .md extension
getSidecarPath(docBase) == docBase \o ".comments.json"

TempPathOf(sidecarPath) == sidecarPath \o ".tmp"

SidecarPath == getSidecarPath(DocBase)
TempPath    == TempPathOf(SidecarPath)
Paths       == UNION { {getSidecarPath(b), TempPathOf(getSidecarPath(b))} : b \in DocBases }

EmptyDisk == [dir |-> [pth \in Paths |-> 0], data |-> <<>>]

\* A disk whose sidecar file holds the text
DiskWith(text) ==
    [dir |-> [pth \in Paths |-> IF pth = SidecarPath THEN 1 ELSE 0], data |-> <<text>>]

\* fs.existsSync(path)
existsSync(d, path) == d.dir[path] # 0

\* open(path, 'w'): an existing file is truncated, a missing one created
OpenForWrite(d, path) ==
    IF existsSync(d, path)
    THEN [disk |-> [d EXCEPT !.data[d.dir[path]] = <<>>], fd |-> d.dir[path]]
    ELSE [disk |-> [dir |-> [d.dir EXCEPT ![path] = Len(d.data) + 1],
                    data |-> Append(d.data, <<>>)],
          fd |-> Len(d.data) + 1]

\* write(fd, text) at offset 0: what the file held beyond the text stays
WriteFd(d, fd, text) ==
    [d EXCEPT !.data[fd] = text \o SubSeq(@, Len(text) + 1, Len(@))]

\* fs.promises.rename(from, to), from existing
Rename(d, from, to) ==
    [d EXCEPT !.dir = [@ EXCEPT ![to] = d.dir[from], ![from] = 0]]

\* fs.promises.unlink(path)
Unlink(d, path) == [d EXCEPT !.dir[path] = 0]

\* The tokens fs.promises.readFile(path) returns, path existing
ReadFileText(d, path) == d.data[d.dir[path]]

----------------------------------------------------------------------------
(* SidecarManager.readSidecar / writeSidecar (src/models/types.ts)         *)

\* validateSidecar(data)
validateSidecar(data) ==
    IF data.type # "object" THEN FALSE
    ELSE IF data.members.doc.type # "string" THEN FALSE
    ELSE IF data.members.version # JString("1.0") THEN FALSE
    ELSE IF data.members.commentsType # "array" THEN FALSE
    ELSE TRUE

\* The value readSidecar resolves to: ok = FALSE stands for null
NullSidecar == [ok |-> FALSE, sc |-> createEmptySidecar("")]

\* The end of readSidecar once readFile has returned the text: JSON.parse,
\* validateSidecar, and null for a SyntaxError
ReadResult(text) ==
    LET data == JsonParse(text) IN
    IF ~data.ok THEN NullSidecar
    ELSE IF validateSidecar(data)
         THEN [ok |-> TRUE,
               sc |-> [doc |-> data.members.doc.str, version |-> data.members.version.str,
                       comments |-> data.members.comments]]
         ELSE NullSidecar

----------------------------------------------------------------------------
(* Idle values of the variable groups                                      *)

NoAnchored == [found |-> FALSE, index |-> 0, isStale |-> FALSE]
NoHashArgs == [a |-> <<>>, b |-> <<>>, maxChars |-> 0]

AnchorIdle ==
    /\ sections = <<>>
    /\ threads = <<>>
    /\ sectionCache = <<>>
    /\ updates = <<>>
    /\ applied = <<>>
    /\ anchorArg = NoAnchor
    /\ candidate = 0
    /\ anchored = NoAnchored
    /\ phase = "idle"

SidecarIdle ==
    /\ sidecar = createEmptySidecar("")
    /\ nextUuid = 0
    /\ prev = createEmptySidecar("")
    /\ call = NoCall
    /\ ret = NoRet
    /\ calls = 0
    /\ drafts = <<>>

TextIdle ==
    /\ content = <<>>
    /\ parsed = <<>>
    /\ lineArg = 0
    /\ lineFound = 0
    /\ hashArgs = NoHashArgs
    /\ hashes = <<>>
    /\ textPhase = "idle"

CacheIdle ==
    /\ docs = <<>>
    /\ cacheLog = <<>>
    /\ returned = <<>>

StoreIdle ==
    /\ disk = EmptyDisk
    /\ runs = <<>>
    /\ journal = <<>>
    /\ events = <<>>
    /\ writing = FALSE
    /\ pendingResets = 0
    /\ issued = 0

\* No repository, and no preview panel open
\* (of a branch, whether its last commit has the sidecar file, and the text)
NoCommit == [tracked |-> FALSE, text |-> <<>>]
NoGit    == [branch |-> "", main |-> NoCommit, comment |-> NoCommit]
NoPanel  == [open |-> FALSE, document |-> "", visible |-> FALSE, timer |-> "none",
             armed |-> FALSE, log |-> <<>>, updates |-> <<>>]

HostIdle ==
    /\ git = NoGit
    /\ panel = NoPanel

----------------------------------------------------------------------------
(* SpecDetect: detectStaleThreads on every bounded (sections, threads)     *)
(* pair, the caller applying the updates, and a second detection.          *)

SectionLists(maxLen, lineSet) ==
    UNION { [1..n -> {MarkdownSection(s, h, l) : s \in Slugs, h \in Hashes, l \in lineSet}]
            : n \in 0..maxLen }

\* Threads as a sidecar holds them: ids are distinct, one entry each
ThreadLists(maxLen) ==
    UNION { { [i \in 1..n |->
                 CommentThread(Uuid(i), CommentAnchor(f[i][1], f[i][2], 0), f[i][3],
                               FALSE, <<CommentEntry("entry-1", "alice", "Looks good")>>)]
              : f \in [1..n -> Slugs \X Hashes \X Statuses] }
            : n \in 0..maxLen }

DetectInit ==
    /\ sections \in SectionLists(MaxSections, {0})
    /\ threads \in ThreadLists(MaxThreads)
    /\ sectionCache = (DocUri :> sections)
    /\ updates = <<>>
    /\ applied = <<>>
    /\ anchorArg = NoAnchor
    /\ candidate = 0
    /\ anchored = NoAnchored
    /\ phase = "start"
    /\ SidecarIdle
    /\ TextIdle
    /\ CacheIdle
    /\ StoreIdle
    /\ HostIdle

\* A detectStaleThreads that writes the new status into the threads itself
DetectStaleThreadsInPlace ==
    /\ phase = "start"
    /\ updates' = detectStaleThreads(sections, threads)
    /\ threads' = ApplyUpdates(threads, updates')
    /\ phase' = "detected"
    /\ UNCHANGED <<sections, sectionCache, applied, anchorArg, candidate, anchored, nonAnchorVars>>

\* engine.detectStaleThreads(sections, threads)
DetectStaleThreads ==
    /\ phase = "start"
    /\ updates' = detectStaleThreads(sections, threads)
    /\ phase' = "detected"
    /\ UNCHANGED <<sections, threads, sectionCache, applied, anchorArg, candidate, anchored, nonAnchorVars>>

\* the caller applies every emitted update
ApplyDetected ==
    /\ phase = "detected"
    /\ threads' = ApplyUpdates(threads, updates)
    /\ applied' = updates
    /\ phase' = "applied"
    /\ UNCHANGED <<sections, sectionCache, updates, anchorArg, candidate, anchored, nonAnchorVars>>

\* engine.detectStaleThreads(sections, threads) on the updated threads
DetectAgain ==
    /\ phase = "applied"
    /\ updates' = detectStaleThreads(sections, threads)
    /\ phase' = "redetected"
    /\ UNCHANGED <<sections, threads, sectionCache, applied, anchorArg, candidate, anchored, nonAnchorVars>>

DetectNext == DetectStaleThreads \/ ApplyDetected \/ DetectAgain

SpecDetect == DetectInit /\ [][DetectNext]_vars

----------------------------------------------------------------------------
(* SpecRounds: the document changes, the user resolves and reopens         *)
(* threads, and rounds of detectStaleThreads with the updates applied.     *)

\* Threads that were created on sections whose content hashed to "h1"
RoundsInit ==
    /\ sections \in SectionLists(MaxSections, {0})
    /\ threads \in {t \in ThreadLists(MaxThreads) :
                      \A i \in DOMAIN t :
                          t[i].status = "open" /\ t[i].anchor.contentHash = "h1"}
    /\ sectionCache = <<>>
    /\ updates = <<>>
    /\ applied = <<>>
    /\ anchorArg = NoAnchor
    /\ candidate = 0
    /\ anchored = NoAnchored
    /\ phase = "start"
    /\ SidecarIdle
    /\ TextIdle
    /\ CacheIdle
    /\ StoreIdle
    /\ HostIdle

\* The section lists one edit of the document leads to: a section's content
\* changes, a section is removed, or a section is added at the end
EditedSections(secs) ==
    (UNION {{[secs EXCEPT ![k].contentHash = h] : h \in Hashes \ {secs[k].contentHash}}
            : k \in DOMAIN secs})
    \cup {SubSeq(secs, 1, k - 1) \o SubSeq(secs, k + 1, Len(secs)) : k \in DOMAIN secs}
    \cup (IF Len(secs) < MaxSections
          THEN {Append(secs, MarkdownSection(slug, h, 0)) : slug \in Slugs, h \in Hashes}
          ELSE {})

\* The document is edited and parsed again; the updates of the round
\* before are gone
ChangeSections ==
    /\ phase \in {"start", "changed", "applied"}
    /\ sections' \in EditedSections(sections)
    /\ phase' = "changed"
    /\ updates' = <<>>
    /\ applied' = <<>>
    /\ UNCHANGED <<threads, sectionCache, anchorArg, candidate, anchored, nonAnchorVars>>

\* The resolveThread and reopenThread cases: updateThreadStatus with
\* 'resolved' and with 'open'
UserSetStatus ==
    /\ phase \in {"start", "changed", "applied"}
    /\ \E i \in DOMAIN threads, status \in {"resolved", "open"} :
          threads' = updateThreadStatus([comments |-> threads], threads[i].id, status).sc.comments
    /\ phase' = "changed"
    /\ updates' = <<>>
    /\ applied' = <<>>
    /\ UNCHANGED <<sections, sectionCache, anchorArg, candidate, anchored, nonAnchorVars>>

\* engine.detectStaleThreads(sections, threads), the first half of a round
DetectRound ==
    /\ phase \in {"start", "changed", "applied"}
    /\ updates' = detectStaleThreads(sections, threads)
    /\ applied' = <<>>
    /\ phase' = "detected"
    /\ UNCHANGED <<sections, threads, sectionCache, anchorArg, candidate, anchored, nonAnchorVars>>

RoundsNext == ChangeSections \/ UserSetStatus \/ DetectRound \/ ApplyDetected

SpecRounds == RoundsInit /\ [][RoundsNext]_vars

----------------------------------------------------------------------------
(* SpecReparent: findReparentCandidate on every bounded section list and   *)
(* anchor.                                                                 *)

ReparentInit ==
    /\ sections \in SectionLists(MaxReparentSections, Lines)
    /\ anchorArg \in {CommentAnchor(s, h, l) : s \in {"old-section"}, h \in Hashes \cup {"old-hash"},
                                              l \in Lines \cup {99}}
    /\ threads = <<>>
    /\ sectionCache = <<>>
    /\ updates = <<>>
    /\ applied = <<>>
    /\ candidate = 0
    /\ anchored = NoAnchored
    /\ phase = "start"
    /\ SidecarIdle
    /\ TextIdle
    /\ CacheIdle
    /\ StoreIdle
    /\ HostIdle

\* engine.findReparentCandidate(sections, anchor)
FindReparentCandidate ==
    /\ phase = "start"
    /\ candidate' = findReparentCandidate(sections, anchorArg)
    /\ phase' = "searched"
    /\ UNCHANGED <<sections, threads, sectionCache, updates, applied, anchorArg, anchored, nonAnchorVars>>

ReparentNext == FindReparentCandidate

SpecReparent == ReparentInit /\ [][ReparentNext]_vars

----------------------------------------------------------------------------
(* SpecHash: computeContentHash on every pair of texts of at most          *)
(* MaxTextLen characters, with every maxChars up to MaxHashChars.          *)

Texts(maxLen) == UNION { [1..n -> {"a", "b"}] : n \in 0..maxLen }

HashInit ==
    /\ hashArgs \in [a : Texts(MaxTextLen), b : Texts(MaxTextLen), maxChars : 0..MaxHashChars]
    /\ hashes = <<>>
    /\ content = <<>>
    /\ parsed = <<>>
    /\ lineArg = 0
    /\ lineFound = 0
    /\ textPhase = "start"
    /\ AnchorIdle
    /\ SidecarIdle
    /\ CacheIdle
    /\ StoreIdle
    /\ HostIdle

\* computeContentHash(a, maxChars) and computeContentHash(b, maxChars)
ComputeContentHash ==
    /\ textPhase = "start"
    /\ hashes' = << computeContentHash(hashArgs.a, hashArgs.maxChars),
                    computeContentHash(hashArgs.b, hashArgs.maxChars) >>
    /\ textPhase' = "hashed"
    /\ UNCHANGED <<content, parsed, lineArg, lineFound, hashArgs, nonTextVars>>

HashNext == ComputeContentHash

SpecHash == HashInit /\ [][HashNext]_vars

----------------------------------------------------------------------------
(* SpecAnchor: createAnchor on a section, then findAnchoredSection on the  *)
(* list holding that section only.                                         *)

\* Sections as the parser can return them: the slug may be empty
AnchorSections ==
    { MarkdownSection(s, h, l) : s \in Slugs \cup {""}, h \in Hashes, l \in 0..MaxAnchorLine }

AnchorInit ==
    /\ sections \in { <<s>> : s \in AnchorSections }
    /\ threads = <<>>
    /\ sectionCache = <<>>
    /\ updates = <<>>
    /\ applied = <<>>
    /\ anchorArg = NoAnchor
    /\ candidate = 0
    /\ anchored = NoAnchored
    /\ phase = "start"
    /\ SidecarIdle
    /\ TextIdle
    /\ CacheIdle
    /\ StoreIdle
    /\ HostIdle

\* engine.createAnchor(section)
CreateAnchor ==
    /\ phase = "start"
    /\ anchorArg' = createAnchor(sections[1])
    /\ phase' = "anchored"
    /\ UNCHANGED <<sections, threads, sectionCache, updates, applied, candidate, anchored,
                   nonAnchorVars>>

\* engine.findAnchoredSection([section], anchor)
FindAnchoredSection ==
    /\ phase = "anchored"
    /\ anchored' = findAnchoredSection(sections, anchorArg)
    /\ phase' = "found"
    /\ UNCHANGED <<sections, threads, sectionCache, updates, applied, anchorArg, candidate,
                   nonAnchorVars>>

AnchorNext == CreateAnchor \/ FindAnchoredSection

SpecAnchor == AnchorInit /\ [][AnchorNext]_vars

----------------------------------------------------------------------------
(* SpecCache: parseSections, getSections and clearCache on two documents   *)
(* whose text is edited between the calls.                                 *)

OtherUri == "file:///other.md"
Uris == {DocUri, OtherUri}

\* The successive texts of a document: one section, no heading at all, two
\* sections; an edit replaces the text by the next one
DocTexts ==
    << <<"#", " ", "a">>,
       <<"a">>,
       <<"#", " ", "a", LF, "a", LF, "#", " ", "b">> >>

NextText(text) ==
    LET k == CHOOSE i \in DOMAIN DocTexts : DocTexts[i] = text IN
    DocTexts[(k % Len(DocTexts)) + 1]

CacheEvent(op, uri, text) == [op |-> op, uri |-> uri, text |-> text]

CacheInit ==
    /\ docs = [u \in Uris |-> DocTexts[1]]
    /\ sectionCache = <<>>
    /\ cacheLog = <<>>
    /\ returned = <<>>
    /\ sections = <<>>
    /\ threads = <<>>
    /\ updates = <<>>
    /\ applied = <<>>
    /\ anchorArg = NoAnchor
    /\ candidate = 0
    /\ anchored = NoAnchored
    /\ phase = "idle"
    /\ SidecarIdle
    /\ TextIdle
    /\ StoreIdle
    /\ HostIdle

\* engine.parseSections(document)
ParseSections ==
    /\ Len(cacheLog) < MaxCacheOps
    /\ \E u \in Uris :
          LET r == parseSections(sectionCache, u, docs[u]) IN
          /\ sectionCache' = r.cache
          /\ returned' = r.ret
          /\ cacheLog' = Append(cacheLog, CacheEvent("parseSections", u, docs[u]))
    /\ UNCHANGED <<docs, sections, threads, updates, applied, anchorArg, candidate, anchored,
                   phase, sidecarVars, textVars, storeVars, hostVars>>

\* engine.getSections(document)
GetSections ==
    /\ Len(cacheLog) < MaxCacheOps
    /\ \E u \in Uris :
          LET r == getSections(sectionCache, u, docs[u]) IN
          /\ sectionCache' = r.cache
          /\ returned' = r.ret
          /\ cacheLog' = Append(cacheLog, CacheEvent("getSections", u, docs[u]))
    /\ UNCHANGED <<docs, sections, threads, updates, applied, anchorArg, candidate, anchored,
                   phase, sidecarVars, textVars, storeVars, hostVars>>

\* engine.clearCache(uri)
ClearCache ==
    /\ Len(cacheLog) < MaxCacheOps
    /\ \E u \in Uris :
          /\ sectionCache' = clearCache(sectionCache, u)
          /\ cacheLog' = Append(cacheLog, CacheEvent("clearCache", u, docs[u]))
    /\ returned' = <<>>
    /\ UNCHANGED <<docs, sections, threads, updates, applied, anchorArg, candidate, anchored,
                   phase, sidecarVars, textVars, storeVars, hostVars>>

\* the user edits a document; the engine is not called
ChangeText ==
    /\ Len(cacheLog) < MaxCacheOps
    /\ \E u \in Uris :
          /\ docs' = [docs EXCEPT ![u] = NextText(docs[u])]
          /\ cacheLog' = Append(cacheLog, CacheEvent("edit", u, NextText(docs[u])))
    /\ returned' = <<>>
    /\ UNCHANGED <<sectionCache, sections, threads, updates, applied, anchorArg, candidate,
                   anchored, phase, sidecarVars, textVars, storeVars, hostVars>>

CacheNext == ParseSections \/ GetSections \/ ClearCache \/ ChangeText

SpecCache == CacheInit /\ [][CacheNext]_vars

----------------------------------------------------------------------------
(* SpecSidecar: every sequence of at most MaxCalls mutator calls on an     *)
(* aggregate that starts empty.                                            *)

Authors   == {"alice", "bob"}
AnchorOld == CommentAnchor("intro", "h1", 0)
AnchorNew == CommentAnchor("setup", "h2", 5)

\* The thread handed to addThread: open, draft, one entry by its creator
NewThreadInput ==
    CommentThread("", AnchorOld, "open", TRUE, <<CommentEntry("entry-1", "alice", "b1")>>)

\* The entry handed to addReply
ReplyInput == CommentEntry("", "bob", "b1")

\* Thread ids a caller may pass: the ids of the threads present, the first
\* id ever issued (a deleted thread's id once that thread is gone), the
\* last id issued (a thread's or a reply's) and an id made up by the caller
ThreadIdArgs(sc) ==
    {sc.comments[i].id : i \in DOMAIN sc.comments}
        \cup {Uuid(1), Uuid(nextUuid), "nonexistent-id"}

\* Comment ids a caller may pass for the thread: its entries' ids, the id
\* of every thread's first entry, and an id no entry has
CommentIdArgs(sc, threadId) ==
    LET t == ThreadIndex(sc, threadId) IN
    (IF t = 0 THEN {} ELSE {sc.comments[t].thread[k].id : k \in DOMAIN sc.comments[t].thread})
        \cup {"entry-1", "no-such-comment"}

\* Comment indices a caller may pass: from -1 to the thread's length
IndexArgs(sc, threadId) ==
    LET t == ThreadIndex(sc, threadId) IN
    IF t = 0 THEN {0} ELSE -1..Len(sc.comments[t].thread)

SidecarInit ==
    /\ sidecar = createEmptySidecar("test.md")
    /\ nextUuid = 0
    /\ prev = createEmptySidecar("test.md")
    /\ call = NoCall
    /\ ret = NoRet
    /\ calls = 0
    /\ drafts = <<>>
    /\ AnchorIdle
    /\ TextIdle
    /\ CacheIdle
    /\ StoreIdle
    /\ HostIdle

\* The bookkeeping of one mutator call c whose outcome is result and which
\* drew used values from uuidv4()
Called(c, result, used) ==
    /\ prev' = sidecar
    /\ sidecar' = result.sc
    /\ ret' = result.ret
    /\ call' = c
    /\ calls' = calls + 1
    /\ nextUuid' = nextUuid + used
    /\ drafts' = <<>>
    /\ UNCHANGED nonSidecarVars

AddThread ==
    /\ calls < MaxCalls
    /\ Called(Call("addThread", "", "", 0, ""),
              addThread(sidecar, NewThreadInput, Uuid(nextUuid + 1)), 1)

AddReply ==
    /\ calls < MaxCalls
    /\ \E id \in ThreadIdArgs(sidecar) :
           LET r == addReply(sidecar, id, ReplyInput, Uuid(nextUuid + 1)) IN
           Called(Call("addReply", id, "", 0, ""), r, IF r.ret.kind = "entry" THEN 1 ELSE 0)

DeleteThread ==
    /\ calls < MaxCalls
    /\ \E id \in ThreadIdArgs(sidecar) :
           Called(Call("deleteThread", id, "", 0, ""), deleteThread(sidecar, id), 0)

DeleteComment ==
    /\ calls < MaxCalls
    /\ \E id \in ThreadIdArgs(sidecar) : \E i \in IndexArgs(sidecar, id) :
           Called(Call("deleteComment", id, "", i, ""), deleteComment(sidecar, id, i), 0)

DeleteCommentById ==
    /\ calls < MaxCalls
    /\ \E id \in ThreadIdArgs(sidecar) : \E cid \in CommentIdArgs(sidecar, id) :
           Called(Call("deleteCommentById", id, cid, 0, ""),
                  deleteCommentById(sidecar, id, cid), 0)

ToggleReaction ==
    /\ calls < MaxCalls
    /\ \E id \in ThreadIdArgs(sidecar) : \E cid \in CommentIdArgs(sidecar, id) :
         \E author \in Authors :
           Called(Call("toggleReaction", id, cid, 0, author),
                  toggleReaction(sidecar, id, cid, author), 0)

EditComment ==
    /\ calls < MaxCalls
    /\ \E id \in ThreadIdArgs(sidecar) : \E cid \in CommentIdArgs(sidecar, id) :
           Called(Call("editComment", id, cid, 0, "b2"),
                  editComment(sidecar, id, cid, "b2", "t1"), 0)

UpdateThreadStatus ==
    /\ calls < MaxCalls
    /\ \E id \in ThreadIdArgs(sidecar) : \E status \in Statuses :
           Called(Call("updateThreadStatus", id, "", 0, status),
                  updateThreadStatus(sidecar, id, status), 0)

MarkAllPublished ==
    /\ calls < MaxCalls
    /\ Called(Call("markAllPublished", "", "", 0, ""), markAllPublished(sidecar), 0)

ReparentThread ==
    /\ calls < MaxCalls
    /\ \E id \in ThreadIdArgs(sidecar) :
           Called(Call("reparentThread", id, "", 0, AnchorNew.sectionSlug),
                  reparentThread(sidecar, id, AnchorNew), 0)

\* getDraftThreads(sidecar): the aggregate is left as it is
GetDraftThreads ==
    /\ calls < MaxCalls
    /\ drafts' = getDraftThreads(sidecar)
    /\ prev' = sidecar
    /\ call' = Call("getDraftThreads", "", "", 0, "")
    /\ ret' = Ret("threads", TRUE, "")
    /\ calls' = calls + 1
    /\ UNCHANGED <<sidecar, nextUuid, nonSidecarVars>>

SidecarNext ==
    \/ AddThread
    \/ AddReply
    \/ DeleteThread
    \/ DeleteComment
    \/ DeleteCommentById
    \/ ToggleReaction
    \/ EditComment
    \/ UpdateThreadStatus
    \/ MarkAllPublished
    \/ ReparentThread
    \/ GetDraftThreads

SpecSidecar == SidecarInit /\ [][SidecarNext]_vars

----------------------------------------------------------------------------
(* SpecParse: parseMarkdownSections on every text of at most MaxDocLines   *)
(* lines, then findSectionByLine on the sections it returned.              *)

\* The lines the texts are made of: two headings with the same text, a
\* heading whose text is whitespace, a backtick fence, a tilde fence, a
\* line of body text and an empty line
DocLines ==
    { <<"#", " ", "a">>, <<"#", "#", " ", "a">>, <<"#", " ", " ">>,
      <<Backtick, Backtick, Backtick>>, <<"~", "~", "~", "~">>, <<"a">>, <<>> }

LineBreaks == { <<LF>>, <<CR, LF>>, <<CR>> }

Documents(maxLines) ==
    { Join(ls, br) : ls \in UNION { [1..n -> DocLines] : n \in 0..maxLines },
                     br \in LineBreaks }

ParseInit ==
    /\ content \in Documents(MaxDocLines)
    /\ parsed = <<>>
    /\ lineArg = 0
    /\ lineFound = 0
    /\ hashArgs = NoHashArgs
    /\ hashes = <<>>
    /\ textPhase = "start"
    /\ AnchorIdle
    /\ SidecarIdle
    /\ CacheIdle
    /\ StoreIdle
    /\ HostIdle

\* parseMarkdownSections(content)
ParseMarkdownSections ==
    /\ textPhase = "start"
    /\ parsed' = parseMarkdownSections(content)
    /\ textPhase' = "parsed"
    /\ UNCHANGED <<content, lineArg, lineFound, hashArgs, hashes, nonTextVars>>

\* findSectionByLine(sections, line) for a line index of the text, or the
\* index just past its last line
FindSectionByLine ==
    /\ textPhase = "parsed"
    /\ \E line \in 0..Len(NormalizedLines(content)) :
          /\ lineArg' = line
          /\ lineFound' = findSectionByLine(parsed, line)
    /\ textPhase' = "found"
    /\ UNCHANGED <<content, parsed, hashArgs, hashes, nonTextVars>>

ParseNext == ParseMarkdownSections \/ FindSectionByLine

SpecParse == ParseInit /\ [][ParseNext]_vars

\* The two texts have the same first n characters (both may be shorter)
AgreeOnFirst(a, b, n) ==
    \A k \in 1..n :
        /\ k <= Len(a) <=> k <= Len(b)
        /\ (k <= Len(a) /\ k <= Len(b)) => a[k] = b[k]

\* C15: computeContentHash(a, n) = computeContentHash(b, n) whenever a and
\* b agree on their first n characters, however they differ afterwards; in
\* particular a text longer than n hashes like its n-character prefix.
C15_HashOfPrefix ==
    textPhase = "hashed" =>
        (AgreeOnFirst(hashArgs.a, hashArgs.b, hashArgs.maxChars) => hashes[1] = hashes[2])

\* a text longer than maxChars and its prefix of maxChars characters
C15_Witness ==
    /\ textPhase = "hashed"
    /\ hashArgs.maxChars = 2
    /\ Len(hashArgs.a) = 3
    /\ hashArgs.b = SubSeq(hashArgs.a, 1, 2)
    /\ hashes[1] = hashes[2]

----------------------------------------------------------------------------
(* Properties of the anchor engine                                         *)

Min(S) == CHOOSE x \in S : \A y \in S : x <= y

\* The anchor's slug names no section of the list
Orphaned(secs, anchor) ==
    \A i \in DOMAIN secs : secs[i].slug # anchor.sectionSlug

\* The first section with the anchor's slug
FirstWithSlug(secs, anchor) ==
    secs[Min({i \in DOMAIN secs : secs[i].slug = anchor.sectionSlug})]

Drifted(secs, anchor) ==
    /\ ~Orphaned(secs, anchor)
    /\ FirstWithSlug(secs, anchor).contentHash # anchor.contentHash

Matching(secs, anchor) ==
    /\ ~Orphaned(secs, anchor)
    /\ FirstWithSlug(secs, anchor).contentHash = anchor.contentHash

\* The status detectStaleThreads is expected to ask for, "none" if no update
ExpectedStatus(secs, thread) ==
    IF thread.status = "open" /\ (Orphaned(secs, thread.anchor) \/ Drifted(secs, thread.anchor))
    THEN "stale"
    ELSE IF thread.status = "stale" /\ Matching(secs, thread.anchor)
    THEN "open"
    ELSE "none"

ExpectedUpdates(secs, thrs) ==
    LET Wanted(i) == ExpectedStatus(secs, thrs[i]) # "none"
        idx == SelectSeq([i \in 1..Len(thrs) |-> i], Wanted)
    IN  [k \in 1..Len(idx) |->
           [thread |-> idx[k], newStatus |-> ExpectedStatus(secs, thrs[idx[k]])]]

\* C1: reconciliation idempotence - once every update of a detection has
\* been applied, detecting again on the same sections and the updated
\* threads returns the empty list.
C1_ReconciliationIdempotent ==
    phase = "redetected" => updates = <<>>

\* the first detection asked for stale and for open, both were applied
C1_Witness ==
    /\ phase = "redetected"
    /\ \E k \in DOMAIN applied : applied[k].newStatus = "stale"
    /\ \E k \in DOMAIN applied : applied[k].newStatus = "open"

\* C2: a resolved thread never appears in the output of detectStaleThreads,
\* neither when its anchor is orphaned nor when its section's hash differs.
C2_ResolvedNeverUpdated ==
    phase \in {"detected", "redetected"} =>
        \A k \in DOMAIN updates : threads[updates[k].thread].status # "resolved"

\* a detection ran on a resolved orphaned thread and a resolved drifted one
C2_Witness ==
    /\ phase = "detected"
    /\ \E i \in DOMAIN threads :
          threads[i].status = "resolved" /\ Orphaned(sections, threads[i].anchor)
    /\ \E i \in DOMAIN threads :
          threads[i].status = "resolved" /\ Drifted(sections, threads[i].anchor)

\* C3: detectStaleThreads emits exactly: stale for an open thread whose
\* anchor is orphaned or drifted, open for a stale thread whose anchor
\* matches again, nothing for any other thread; at most one update per
\* thread, in input order.
C3_ExactUpdates ==
    phase \in {"detected", "redetected"} =>
        updates = ExpectedUpdates(sections, threads)

\* a detection that emitted an open update followed by a stale update
C3_Witness ==
    /\ phase = "detected"
    /\ Len(updates) = 2
    /\ updates[1].newStatus = "open"
    /\ updates[2].newStatus = "stale"

\* C4: detectStaleThreads has no side effects - a detection step leaves the
\* threads passed in (status, anchor, isDraft, entries), the section list
\* and the engine's section cache as they were.
C4_DetectHasNoSideEffects ==
    [][(phase' \in {"detected", "redetected"} /\ phase' # phase)
         => (threads' = threads /\ sections' = sections /\ sectionCache' = sectionCache)]_vars

\* a detection that had updates to report, with a cached section list
C4_Witness ==
    /\ phase = "detected"
    /\ updates # <<>>
    /\ DocUri \in DOMAIN sectionCache
    /\ \E k \in DOMAIN updates : threads[updates[k].thread].status # updates[k].newStatus

\* C5: findReparentCandidate returns the first section whose startLine
\* equals the line hint if there is one, even when another section has the
\* anchor's content hash; otherwise the first section with the anchor's
\* content hash; otherwise null.
C5_ReparentPriority ==
    phase = "searched" =>
        LET LineMatch(i) == sections[i].startLine = anchorArg.lineHint
            HashMatch(i) == sections[i].contentHash = anchorArg.contentHash
            idx == DOMAIN sections
        IN  \/ /\ candidate \in idx
               /\ LineMatch(candidate)
               /\ \A j \in 1..(candidate - 1) : ~LineMatch(j)
            \/ /\ candidate \in idx
               /\ \A j \in idx : ~LineMatch(j)
               /\ HashMatch(candidate)
               /\ \A j \in 1..(candidate - 1) : ~HashMatch(j)
            \/ /\ candidate = 0
               /\ \A j \in idx : ~LineMatch(j) /\ ~HashMatch(j)

\* the line match won although an earlier, different section has the hash
C5_Witness ==
    /\ phase = "searched"
    /\ candidate > 1
    /\ sections[candidate].startLine = anchorArg.lineHint
    /\ sections[candidate].contentHash # anchorArg.contentHash
    /\ sections[1].contentHash = anchorArg.contentHash
    /\ sections[1].startLine # anchorArg.lineHint

\* C14: anchor round-trip - createAnchor copies slug, contentHash and
\* startLine into sectionSlug, contentHash and lineHint, and
\* findAnchoredSection([s], createAnchor(s)) returns the section s with
\* isStale = false.
C14_AnchorRoundTrip ==
    /\ phase \in {"anchored", "found"} =>
          /\ anchorArg.sectionSlug = sections[1].slug
          /\ anchorArg.contentHash = sections[1].contentHash
          /\ anchorArg.lineHint = sections[1].startLine
    /\ phase = "found" =>
          /\ anchored.found
          /\ sections[anchored.index] = sections[1]
          /\ anchored.isStale = FALSE

\* the round trip of a section with an empty slug that does not start the text
C14_Witness ==
    /\ phase = "found"
    /\ sections[1].slug = ""
    /\ sections[1].startLine > 0
    /\ anchored.found

\* What the log of calls says the engine holds for a document: has = FALSE
\* after clearCache or before any call, otherwise the text the document
\* had at the most recent parseSections, or at the getSections that found
\* nothing stored
RECURSIVE StoredText(_, _)
StoredText(log, uri) ==
    IF log = <<>> THEN [has |-> FALSE, text |-> <<>>]
    ELSE LET e      == log[Len(log)]
             before == StoredText(SubSeq(log, 1, Len(log) - 1), uri)
         IN  IF e.uri # uri \/ e.op = "edit" THEN before
             ELSE IF e.op = "clearCache" THEN [has |-> FALSE, text |-> <<>>]
             ELSE IF e.op = "parseSections" THEN [has |-> TRUE, text |-> e.text]
             ELSE IF before.has THEN before
             ELSE [has |-> TRUE, text |-> e.text]

\* C16: section cache - getSections returns the list stored by the most
\* recent parseSections (or cache-miss getSections) for that document,
\* whatever edits happened since, until clearCache is called for it; the
\* first getSections after clearCache returns the parse of the current
\* text; parseSections always parses the current text and overwrites the
\* stored list; clearCache of one document leaves the lists of the other
\* documents in place.
C16_SectionCache ==
    /\ \A u \in Uris :
          /\ u \in DOMAIN sectionCache <=> StoredText(cacheLog, u).has
          /\ u \in DOMAIN sectionCache =>
                sectionCache[u] = parseMarkdownSections(StoredText(cacheLog, u).text)
    /\ cacheLog # <<>> =>
          LET e      == cacheLog[Len(cacheLog)]
              before == StoredText(SubSeq(cacheLog, 1, Len(cacheLog) - 1), e.uri)
          IN  /\ e.op = "parseSections" => returned = parseMarkdownSections(docs[e.uri])
              /\ e.op = "getSections" =>
                    returned = IF before.has THEN parseMarkdownSections(before.text)
                               ELSE parseMarkdownSections(docs[e.uri])

\* getSections returned the list of an earlier text of the document (an
\* empty list), while the other document's list is cached as well
C16_Witness ==
    /\ cacheLog # <<>>
    /\ cacheLog[Len(cacheLog)].op = "getSections"
    /\ cacheLog[Len(cacheLog)].uri = DocUri
    /\ returned = <<>>
    /\ returned # parseMarkdownSections(docs[DocUri])
    /\ OtherUri \in DOMAIN sectionCache

----------------------------------------------------------------------------
(* Properties of the SidecarManager mutators                               *)

HasThread(sc, id) == \E i \in DOMAIN sc.comments : sc.comments[i].id = id

\* The first thread of the aggregate with that id
ThreadOf(sc, id) ==
    sc.comments[Min({i \in DOMAIN sc.comments : sc.comments[i].id = id})]

HasEntry(thread, commentId) ==
    \E k \in DOMAIN thread.thread : thread.thread[k].id = commentId

ThreadOps ==
    {"addReply", "deleteThread", "deleteComment", "deleteCommentById", "editComment",
     "toggleReaction", "updateThreadStatus", "reparentThread"}

CommentOps == {"deleteCommentById", "editComment", "toggleReaction"}

\* The last call named a thread of the aggregate and, where it names a
\* comment or an index, an entry of that thread
CallHit ==
    /\ call.op \in ThreadOps
    /\ HasThread(prev, call.threadId)
    /\ call.op \in CommentOps => HasEntry(ThreadOf(prev, call.threadId), call.commentId)
    /\ call.op = "deleteComment" =>
          (call.index >= 0 /\ call.index < Len(ThreadOf(prev, call.threadId).thread))

\* The last call named an unknown thread, an unknown comment of a known
\* thread, or an index out of range
CallMissed == call.op \in ThreadOps /\ ~CallHit

\* C6: reparentThread on an existing thread replaces the anchor, sets the
\* status to open whatever it was, sets isDraft, leaves the entries (and
\* every other thread) unchanged and returns true; on an unknown id it
\* returns false and changes nothing.
C6_ReparentThread ==
    call.op = "reparentThread" =>
        IF HasThread(prev, call.threadId)
        THEN LET i == Min({j \in DOMAIN prev.comments : prev.comments[j].id = call.threadId}) IN
             /\ ret = Ret("boolean", TRUE, "")
             /\ DOMAIN sidecar.comments = DOMAIN prev.comments
             /\ sidecar.comments[i].anchor = AnchorNew
             /\ sidecar.comments[i].status = "open"
             /\ sidecar.comments[i].isDraft = TRUE
             /\ sidecar.comments[i].thread = prev.comments[i].thread
             /\ sidecar.comments[i].id = prev.comments[i].id
             /\ \A j \in DOMAIN prev.comments : j # i => sidecar.comments[j] = prev.comments[j]
        ELSE ret = Ret("boolean", FALSE, "") /\ sidecar = prev

\* a resolved, published thread was reparented
C6_Witness ==
    /\ call.op = "reparentThread"
    /\ ret.ok
    /\ ThreadOf(prev, call.threadId).status = "resolved"
    /\ ThreadOf(prev, call.threadId).isDraft = FALSE
    /\ ThreadOf(prev, call.threadId).anchor = AnchorOld

\* C7: every thread of the aggregate has at least one entry; removing the
\* last entry of a thread removes the thread.
C7_NoEmptyThread ==
    /\ \A i \in DOMAIN sidecar.comments : Len(sidecar.comments[i].thread) >= 1
    /\ (/\ call.op \in {"deleteComment", "deleteCommentById"}
        /\ CallHit
        /\ Len(ThreadOf(prev, call.threadId).thread) = 1)
       => (~HasThread(sidecar, call.threadId)
           /\ Len(sidecar.comments) = Len(prev.comments) - 1)

\* the only entry of one of two threads was deleted by index
C7_Witness ==
    /\ call.op = "deleteComment"
    /\ CallHit
    /\ Len(ThreadOf(prev, call.threadId).thread) = 1
    /\ Len(prev.comments) = 2
    /\ Len(sidecar.comments) = 1

\* C8: every successful mutator call that changes a thread's content or
\* status (addReply, editComment, deleteComment / deleteCommentById leaving
\* the thread in place, toggleReaction, updateThreadStatus to open or
\* stale, reparentThread) leaves that thread with isDraft = TRUE.
C8_MutationsMarkDraft ==
    (/\ CallHit
     /\ \/ call.op \in {"addReply", "editComment", "deleteComment", "deleteCommentById",
                        "toggleReaction", "reparentThread"}
        \/ call.op = "updateThreadStatus" /\ call.arg \in {"open", "stale"}
     /\ HasThread(sidecar, call.threadId))
    => ThreadOf(sidecar, call.threadId).isDraft = TRUE

\* C9: addReply returns a new entry exactly when the id names a thread
\* present in the aggregate - whose id addThread issued - and null for
\* every other string, a caller's own id and a deleted thread's id included.
C9_AddReplyIdentity ==
    /\ \A i \in DOMAIN sidecar.comments :
          \E n \in 1..nextUuid : sidecar.comments[i].id = Uuid(n)
    /\ call.op = "addReply" =>
          /\ ret.kind = "entry" <=> HasThread(prev, call.threadId)
          /\ ret.kind # "entry" => (ret = Ret("null", FALSE, "") /\ sidecar = prev)
          /\ ret.kind = "entry" =>
                (/\ Len(ThreadOf(sidecar, call.threadId).thread)
                      = Len(ThreadOf(prev, call.threadId).thread) + 1
                 /\ HasEntry(ThreadOf(sidecar, call.threadId), ret.id))

\* addReply with the id of a deleted thread, another thread being present
C9_Witness ==
    /\ call.op = "addReply"
    /\ call.threadId = Uuid(1)
    /\ nextUuid >= 2
    /\ ret.kind = "null"
    /\ Len(sidecar.comments) >= 1

\* C10: a mutator called with an unknown thread id, an unknown comment id
\* of an existing thread or a deleteComment index out of range returns its
\* failure value (null for addReply and editComment, false for the others)
\* and leaves the whole aggregate unchanged.
C10_FailureChangesNothing ==
    CallMissed =>
        /\ sidecar = prev
        /\ ret = IF call.op \in {"addReply", "editComment"}
                 THEN Ret("null", FALSE, "")
                 ELSE Ret("boolean", FALSE, "")

\* deleteComment with a negative index on a thread with two entries
C10_Witness ==
    /\ call.op = "deleteComment"
    /\ HasThread(prev, call.threadId)
    /\ call.index < 0
    /\ Len(ThreadOf(prev, call.threadId).thread) = 2

\* The authors in the reactions of the entry with that id of that thread
Reactors(sc, threadId, commentId) ==
    LET thread == ThreadOf(sc, threadId)
        list == thread.thread[EntryIndex(thread, commentId)].reactions.list
    IN  {list[k] : k \in DOMAIN list}

\* The aggregate with the reactions of every entry taken out
WithoutReactions(sc) ==
    [sc EXCEPT !.comments = [i \in DOMAIN sc.comments |->
        [sc.comments[i] EXCEPT !.thread = [k \in DOMAIN sc.comments[i].thread |->
            [sc.comments[i].thread[k] EXCEPT !.reactions = NoReactions]]]]]

\* C22: toggleReaction on an existing thread and comment is a symmetric
\* toggle per author: an absent author is added and true is returned, a
\* present one is removed and false is returned; the reactions of the other
\* authors, the other entries and everything else are unchanged, and a
\* second call with the same arguments restores the original membership.
C22_ToggleReactionSymmetric ==
    (call.op = "toggleReaction" /\ CallHit) =>
        LET before == Reactors(prev, call.threadId, call.commentId)
            after  == Reactors(sidecar, call.threadId, call.commentId)
            again  == toggleReaction(sidecar, call.threadId, call.commentId, call.arg)
        IN  /\ ret.kind = "boolean"
            /\ call.arg \notin before => (ret.ok /\ after = before \cup {call.arg})
            /\ call.arg \in before => (~ret.ok /\ after = before \ {call.arg})
            /\ WithoutReactions(sidecar) = WithoutReactions(prev)
            /\ \A i \in DOMAIN prev.comments : \A k \in DOMAIN prev.comments[i].thread :
                  (i # ThreadIndex(prev, call.threadId)
                     \/ k # EntryIndex(prev.comments[i], call.commentId))
                  => sidecar.comments[i].thread[k].reactions
                        = prev.comments[i].thread[k].reactions
            /\ Reactors(again.sc, call.threadId, call.commentId) = before
            /\ again.ret.ok = ~ret.ok

\* bob's reaction is removed from an entry that alice reacted to as well
C22_Witness ==
    /\ call.op = "toggleReaction"
    /\ CallHit
    /\ call.arg = "bob"
    /\ Reactors(prev, call.threadId, call.commentId) = {"alice", "bob"}
    /\ Reactors(sidecar, call.threadId, call.commentId) = {"alice"}
    /\ ~ret.ok

\* C23: after any sequence of mutator calls from an aggregate in which no
\* entry lists an author twice, every entry's reactions holds each author
\* at most once.
C23_ReactionsAreASet ==
    \A i \in DOMAIN sidecar.comments : \A k \in DOMAIN sidecar.comments[i].thread :
        LET list == sidecar.comments[i].thread[k].reactions.list IN
        \A a, b \in DOMAIN list : list[a] = list[b] => a = b

\* alice reacts again to an entry she had reacted to and withdrawn from,
\* bob's reaction being there already
C23_Witness ==
    /\ call.op = "toggleReaction"
    /\ CallHit
    /\ call.arg = "alice"
    /\ ret.ok
    /\ sidecar.comments[ThreadIndex(sidecar, call.threadId)]
          .thread[EntryIndex(ThreadOf(sidecar, call.threadId), call.commentId)]
          .reactions.list = <<"bob", "alice">>
    /\ calls = MaxCalls

\* Indices of the draft threads of the aggregate
DraftIndices(sc) == {i \in DOMAIN sc.comments : sc.comments[i].isDraft}

\* C24: markAllPublished sets isDraft to false on every thread whatever its
\* status and changes nothing else (ids, anchors, statuses, entries, the
\* order of the threads); getDraftThreads right afterwards is empty; and
\* whenever it is called getDraftThreads returns exactly the threads with
\* isDraft = true, in the order of the aggregate, and changes nothing.
C24_PublishClearsDrafts ==
    /\ call.op = "markAllPublished" =>
          /\ Len(sidecar.comments) = Len(prev.comments)
          /\ \A i \in DOMAIN prev.comments :
                sidecar.comments[i] = [prev.comments[i] EXCEPT !.isDraft = FALSE]
          /\ sidecar.doc = prev.doc
          /\ sidecar.version = prev.version
          /\ getDraftThreads(sidecar) = <<>>
    /\ call.op = "getDraftThreads" =>
          /\ sidecar = prev
          /\ Len(drafts) = Cardinality(DraftIndices(sidecar))
          /\ \A i \in DraftIndices(sidecar) :
                drafts[Cardinality({j \in DraftIndices(sidecar) : j <= i})]
                   = sidecar.comments[i]

\* markAllPublished on two threads, the first a resolved draft
C24_Witness ==
    /\ call.op = "markAllPublished"
    /\ Len(prev.comments) = 2
    /\ prev.comments[1].status = "resolved"
    /\ prev.comments[1].isDraft
    /\ prev.comments[2].isDraft
    /\ \A i \in DOMAIN sidecar.comments : ~sidecar.comments[i].isDraft

\* Positions (1-based) of the entries of the thread with that id
EntryPositions(thread, commentId) ==
    {k \in DOMAIN thread.thread : thread.thread[k].id = commentId}

\* C25: deleteCommentById(sidecar, threadId, commentId) has the result and
\* the effect of deleteComment(sidecar, threadId, i), i being the index of
\* the first entry of the thread whose id is commentId, the removal of the
\* whole thread when that entry was its only one included; it returns false
\* and changes nothing when the thread or the comment id is absent.
C25_DeleteByIdIsDeleteByIndex ==
    call.op = "deleteCommentById" =>
        IF HasThread(prev, call.threadId)
              /\ EntryPositions(ThreadOf(prev, call.threadId), call.commentId) # {}
        THEN LET i == Min(EntryPositions(ThreadOf(prev, call.threadId), call.commentId)) - 1
                 byIndex == deleteComment(prev, call.threadId, i)
             IN  /\ sidecar = byIndex.sc
                 /\ ret = byIndex.ret
                 /\ ret.ok
                 /\ Len(ThreadOf(prev, call.threadId).thread) = 1
                       => ~HasThread(sidecar, call.threadId)
        ELSE /\ sidecar = prev
             /\ ret = Ret("boolean", FALSE, "")

\* deleteCommentById removes the only entry of the second of two threads,
\* and the thread with it
C25_Witness ==
    /\ call.op = "deleteCommentById"
    /\ Len(prev.comments) = 2
    /\ call.threadId = prev.comments[2].id
    /\ Len(prev.comments[2].thread) = 1
    /\ call.commentId = prev.comments[2].thread[1].id
    /\ ret.ok
    /\ sidecar.comments = <<prev.comments[1]>>

\* The number of the uuidv4() value: replies get their ids in the order of
\* the addReply calls
UuidNumber(id) ==
    IF \E n \in 1..nextUuid : Uuid(n) = id
    THEN CHOOSE n \in 1..nextUuid : Uuid(n) = id
    ELSE 0

\* C26: after any sequence of mutator calls each thread's entries are in
\* insertion order (addReply appends at the end and leaves the entries
\* there as they are) and the first entry of every thread is the entry
\* supplied when the thread was created, the thread creator's.
C26_CreatorFirstInsertionOrder ==
    /\ (call.op = "addReply" /\ CallHit) =>
          LET t == ThreadIndex(prev, call.threadId) IN
          /\ Len(sidecar.comments[t].thread) = Len(prev.comments[t].thread) + 1
          /\ SubSeq(sidecar.comments[t].thread, 1, Len(prev.comments[t].thread))
                = prev.comments[t].thread
          /\ sidecar.comments[t].thread[Len(sidecar.comments[t].thread)].id = ret.id
    /\ \A i \in DOMAIN sidecar.comments :
          LET thread == sidecar.comments[i].thread IN
          /\ \A k, l \in 2..Len(thread) :
                k < l => UuidNumber(thread[k].id) < UuidNumber(thread[l].id)
          /\ thread # <<>> =>
                /\ thread[1].id = NewThreadInput.thread[1].id
                /\ thread[1].author = NewThreadInput.thread[1].author

\* The part of C26 about the order of the entries alone
EntriesInInsertionOrder ==
    \A i \in DOMAIN sidecar.comments :
        LET thread == sidecar.comments[i].thread
            first == IF thread # <<>> /\ UuidNumber(thread[1].id) = 0 THEN 2 ELSE 1
        IN  \A k, l \in first..Len(thread) :
               k < l => UuidNumber(thread[k].id) < UuidNumber(thread[l].id)

----------------------------------------------------------------------------
(* Callers of readSidecar and writeSidecar. Every await of the two methods *)
(* is a step of its own, so the calls of different callers interleave as   *)
(* the event loop and the file system allow.                               *)

NoSeen == [exists |-> FALSE, text |-> <<>>]

\* A caller: role is client (a free sequence of calls), reader (reads only)
\* or handler (one run of a preview message handler); pc is its position,
\* mem the aggregate it holds, content the text it is writing, fd its open
\* file, seen and result what its last readSidecar found and returned,
\* touched the id of the thread its message names or its mutation added,
\* commentId and slug the other members of the message
Run(role, pc) ==
    [role |-> role, pc |-> pc, doc |-> DocBase, command |-> "", origin |-> "internal",
     ops |-> 0, mem |-> createEmptySidecar(DocName), content |-> <<>>, fd |-> 0,
     seen |-> NoSeen, result |-> NullSidecar, touched |-> "", commentId |-> "",
     slug |-> ""]

JournalEntry(ev, by, sc) == [ev |-> ev, by |-> by, sc |-> sc, doc |-> "", origin |-> ""]

\* The entry of a writeSidecar call: the document and the origin argument
\* passed (Undefined when the caller passes none)
CallEntry(by, sc, docBase, origin) ==
    [ev |-> "call", by |-> by, sc |-> sc, doc |-> docBase, origin |-> origin]

\* The sidecar path and the temp path of the document a caller works on
SidecarOf(p) == getSidecarPath(runs[p].doc)
TempOf(p)    == TempPathOf(SidecarOf(p))

\* The caller is between two calls
AtRest(p) == runs[p].pc \in {"idle", "readDone", "written", "failed"}

\* The synchronous start of readSidecar: existsSync, null if it is false
ReadSidecarCall(run) ==
    IF existsSync(disk, getSidecarPath(run.doc))
    THEN [run EXCEPT !.pc = "readFile", !.seen = NoSeen, !.result = NullSidecar]
    ELSE [run EXCEPT !.pc = "readDone", !.seen = NoSeen, !.result = NullSidecar]

\* The origins a caller may pass to writeSidecar: a WriteOrigin or none
WriteOrigins == {"editor", "preview", "internal"}
OriginArgs   == WriteOrigins \cup {Undefined}

\* A writeSidecar that takes every write for an internal one
WriteSidecarCallAsInternal(run, sc, origin) ==
    [run EXCEPT !.pc = "open", !.mem = sc, !.origin = "internal",
                !.content = JsonStringify(sc)]

\* The synchronous start of writeSidecar: the default of the origin
\* parameter, writing = true, JSON.stringify, and the call of writeFile
WriteSidecarCall(run, sc, origin) ==
    [run EXCEPT !.pc = "open", !.mem = sc,
                !.origin = IF origin = Undefined THEN "internal" ELSE origin,
                !.content = JsonStringify(sc)]

\* a client or the reader calls readSidecar
BeginRead ==
    \E p \in DOMAIN runs :
        /\ runs[p].role \in {"client", "reader"}
        /\ AtRest(p)
        /\ runs[p].ops < (IF runs[p].role = "reader" THEN MaxReads ELSE MaxClientOps)
        /\ runs' = [runs EXCEPT ![p] = [ReadSidecarCall(runs[p]) EXCEPT !.ops = @ + 1]]
        /\ journal' = IF existsSync(disk, SidecarOf(p)) THEN journal
                      ELSE Append(journal, JournalEntry("read", p, NullSidecar.sc))
        /\ UNCHANGED <<disk, events, writing, pendingResets, issued, nonStoreVars>>

\* readFile returns; JSON.parse and validateSidecar decide the result
ReadFile ==
    \E p \in DOMAIN runs :
        /\ runs[p].pc = "readFile"
        /\ LET found  == existsSync(disk, SidecarOf(p))
               text   == IF found THEN ReadFileText(disk, SidecarOf(p)) ELSE <<>>
               result == IF found THEN ReadResult(text) ELSE NullSidecar
           IN  /\ runs' = [runs EXCEPT ![p].pc = "readDone",
                                       ![p].seen = [exists |-> found, text |-> text],
                                       ![p].result = result,
                                       ![p].mem = IF result.ok THEN result.sc ELSE @]
               /\ journal' = Append(journal, JournalEntry("read", p, result.sc))
        /\ UNCHANGED <<disk, events, writing, pendingResets, issued, nonStoreVars>>

\* a client calls writeSidecar(docPath, sidecar) with the aggregate it
\* holds; a writer calls it for either document with any origin or none
BeginWrite ==
    \E p \in DOMAIN runs, docBase \in DocBases, origin \in OriginArgs :
        /\ runs[p].role \in {"client", "writer"}
        /\ runs[p].role = "client" => (docBase = runs[p].doc /\ origin = Undefined)
        /\ AtRest(p)
        /\ IF runs[p].role = "writer"
           THEN Cardinality({k \in DOMAIN journal : journal[k].ev = "call"}) < MaxWrites
           ELSE runs[p].ops < MaxClientOps
        /\ runs' = [runs EXCEPT ![p] =
                       [WriteSidecarCall([runs[p] EXCEPT !.doc = docBase], runs[p].mem, origin)
                          EXCEPT !.ops = @ + 1]]
        /\ journal' = Append(journal, CallEntry(p, runs[p].mem, docBase, origin))
        /\ writing' = TRUE
        /\ UNCHANGED <<disk, events, pendingResets, issued, nonStoreVars>>

\* writeFile opens the temp file
OpenTemp ==
    \E p \in DOMAIN runs :
        /\ runs[p].pc = "open"
        /\ LET r == OpenForWrite(disk, TempOf(p)) IN
           /\ disk' = r.disk
           /\ runs' = [runs EXCEPT ![p].pc = "write", ![p].fd = r.fd]
        /\ UNCHANGED <<journal, events, writing, pendingResets, issued, nonStoreVars>>

\* writeFile writes the content and closes the file
WriteTemp ==
    \E p \in DOMAIN runs :
        /\ runs[p].pc = "write"
        /\ disk' = WriteFd(disk, runs[p].fd, runs[p].content)
        /\ runs' = [runs EXCEPT ![p].pc = "rename", ![p].fd = 0]
        /\ UNCHANGED <<journal, events, writing, pendingResets, issued, nonStoreVars>>

\* rename(tempPath, sidecarPath): with no temp file the call rejects
RenameTemp ==
    \E p \in DOMAIN runs :
        /\ runs[p].pc = "rename"
        /\ IF existsSync(disk, TempOf(p))
           THEN /\ disk' = Rename(disk, TempOf(p), SidecarOf(p))
                /\ runs' = [runs EXCEPT ![p].pc = "renamed"]
                /\ journal' = Append(journal, JournalEntry("done", p, runs[p].mem))
           ELSE /\ runs' = [runs EXCEPT ![p].pc = "catch"]
                /\ UNCHANGED <<disk, journal>>
        /\ UNCHANGED <<events, writing, pendingResets, issued, nonStoreVars>>

\* scheduleUpdate of the preview panel: a pending timer is cleared, and a
\* new one is set if the panel is visible; cause tells what asked for it,
\* armed whether the call set a timer
scheduleUpdate(pn, cause) ==
    IF ~pn.visible THEN [pn EXCEPT !.timer = "none", !.armed = FALSE]
    ELSE [pn EXCEPT !.timer = cause, !.armed = TRUE]

\* A listener that reloads on the events of every origin
OnDidChangeAnyOrigin(pn, e) ==
    IF e.docPath = DocPathOf(pn.document) THEN scheduleUpdate(pn, e.origin) ELSE pn

\* The panel's onDidChange listener
OnDidChange(pn, e) ==
    IF e.origin = "preview" THEN pn
    ELSE IF e.docPath = DocPathOf(pn.document) THEN scheduleUpdate(pn, e.origin)
    ELSE pn

\* The listener is called with the event; the call is logged with the
\* document shown, the visibility and whether it set a timer
Heard(pn, e) ==
    LET after == OnDidChange([pn EXCEPT !.armed = FALSE], e) IN
    [after EXCEPT !.armed = FALSE,
                  !.log = Append(@, [event |-> e, document |-> pn.document,
                                     visible |-> pn.visible,
                                     scheduled |-> after.armed])]

\* writeSidecar after the rename: the finally block arms the timer, then
\* _onDidChange.fire({ docPath, origin }) calls the listeners
FireChange ==
    \E p \in DOMAIN runs :
        /\ runs[p].pc = "renamed"
        /\ runs' = [runs EXCEPT ![p].pc = "written"]
        /\ pendingResets' = pendingResets + 1
        /\ events' = Append(events, [docPath |-> DocPathOf(runs[p].doc),
                                     origin |-> runs[p].origin])
        /\ journal' = Append(journal, JournalEntry("fired", p, runs[p].mem))
        /\ panel' = IF panel.open
                    THEN Heard(panel, [docPath |-> DocPathOf(runs[p].doc),
                                       origin |-> runs[p].origin])
                    ELSE panel
        /\ UNCHANGED <<disk, writing, issued, git, engineVars>>

\* the catch block: the temp file is removed if there is one, the error is
\* thrown again, the finally block arms the timer
CleanupTemp ==
    \E p \in DOMAIN runs :
        /\ runs[p].pc = "catch"
        /\ disk' = IF existsSync(disk, TempOf(p)) THEN Unlink(disk, TempOf(p)) ELSE disk
        /\ runs' = [runs EXCEPT ![p].pc = "failed"]
        /\ journal' = Append(journal, JournalEntry("failed", p, runs[p].mem))
        /\ pendingResets' = pendingResets + 1
        /\ UNCHANGED <<events, writing, issued, nonStoreVars>>

\* the setTimeout callback of writeSidecar
ResetWriting ==
    /\ pendingResets > 0
    /\ writing' = FALSE
    /\ pendingResets' = pendingResets - 1
    /\ UNCHANGED <<disk, runs, journal, events, issued, nonStoreVars>>

\* a client calls addThread on the aggregate it holds
ClientAddThread ==
    \E p \in DOMAIN runs :
        /\ runs[p].role = "client"
        /\ AtRest(p)
        /\ runs[p].ops < MaxClientOps
        /\ LET r == addThread(runs[p].mem, NewThreadInput, Uuid(issued + 1)) IN
           runs' = [runs EXCEPT ![p].mem = r.sc, ![p].touched = r.ret.id,
                                ![p].ops = @ + 1, ![p].pc = "idle"]
        /\ issued' = issued + 1
        /\ UNCHANGED <<disk, journal, events, writing, pendingResets, nonStoreVars>>

\* a client calls addReply with the id of a thread of the aggregate it holds
ClientAddReply ==
    \E p \in DOMAIN runs :
        /\ runs[p].role = "client"
        /\ AtRest(p)
        /\ runs[p].ops < MaxClientOps
        /\ \E i \in DOMAIN runs[p].mem.comments :
              LET r == addReply(runs[p].mem, runs[p].mem.comments[i].id, ReplyInput,
                                Uuid(issued + 1)) IN
              runs' = [runs EXCEPT ![p].mem = r.sc, ![p].touched = runs[p].mem.comments[i].id,
                                   ![p].ops = @ + 1, ![p].pc = "idle"]
        /\ issued' = issued + 1
        /\ UNCHANGED <<disk, journal, events, writing, pendingResets, nonStoreVars>>

\* a client toggles alice's reaction on the first entry of the first thread
ClientToggleReaction ==
    \E p \in DOMAIN runs :
        /\ runs[p].role = "client"
        /\ AtRest(p)
        /\ runs[p].ops < MaxClientOps
        /\ runs[p].mem.comments # <<>>
        /\ LET t == runs[p].mem.comments[1]
               r == toggleReaction(runs[p].mem, t.id, t.thread[1].id, "alice")
           IN  runs' = [runs EXCEPT ![p].mem = r.sc, ![p].touched = t.id,
                                    ![p].ops = @ + 1, ![p].pc = "idle"]
        /\ UNCHANGED <<disk, journal, events, writing, pendingResets, issued, nonStoreVars>>

----------------------------------------------------------------------------
(* SpecRead: readSidecar calls on a sidecar file with any stored content.   *)

\* A thread as JSON.stringify writes it, and two that lack a member
StoredThread == CommentThread(Uuid(1), AnchorOld, "open", FALSE,
                              <<CommentEntry("entry-1", "alice", "b1")>>)

ThreadWithoutStatus ==
    [ThreadJson(StoredThread) EXCEPT !.keys = @ \ {"status"}]

ThreadWithoutEntryAuthor ==
    [ThreadJson(StoredThread) EXCEPT !.thread[1].keys = @ \ {"author"}]

DocMembers ==
    { <<Tok("doc", JString(DocName))>>, <<Tok("doc", JOther("number"))>>, <<>> }

VersionMembers ==
    { <<Tok("version", JString("1.0"))>>, <<Tok("version", JString("2.0"))>>,
      <<Tok("version", JOther("number"))>>, <<>> }

CommentsMembers ==
    { <<Tok("comments[", <<>>), Tok("]", <<>>)>>,
      <<Tok("comments[", <<>>), Tok("item", ThreadJson(StoredThread)), Tok("]", <<>>)>>,
      <<Tok("comments[", <<>>), Tok("item", ThreadWithoutStatus), Tok("]", <<>>)>>,
      <<Tok("comments[", <<>>), Tok("item", ThreadWithoutEntryAuthor), Tok("]", <<>>)>>,
      <<Tok("comments", JOther("string"))>>,
      <<>> }

\* The contents a sidecar file may have: every object made of the members
\* above, text that is not JSON, the JSON text null, an empty file, and a
\* valid text cut short
StoredTexts ==
    { <<Tok("{", <<>>)>> \o d \o v \o c \o <<Tok("}", <<>>)>> :
          d \in DocMembers, v \in VersionMembers, c \in CommentsMembers }
    \cup { <<Tok("garbage", <<>>)>>, <<Tok("null", <<>>)>>, <<>>,
           SubSeq(JsonStringify(createEmptySidecar(DocName)), 1, 4) }

ReadInit ==
    /\ disk \in {EmptyDisk} \cup { DiskWith(text) : text \in StoredTexts }
    /\ runs = ("c" :> Run("client", "idle"))
    /\ journal = <<>>
    /\ events = <<>>
    /\ writing = FALSE
    /\ pendingResets = 0
    /\ issued = 1
    /\ AnchorIdle
    /\ SidecarIdle
    /\ TextIdle
    /\ CacheIdle
    /\ HostIdle

ReadNext == BeginRead \/ ReadFile

SpecRead == ReadInit /\ [][ReadNext]_vars

----------------------------------------------------------------------------
(* SpecPersist: one client, starting without a sidecar file, makes up to   *)
(* MaxClientOps calls: addThread, addReply, toggleReaction on the          *)
(* aggregate it holds, writeSidecar of it, readSidecar replacing it.       *)

PersistInit ==
    /\ disk = EmptyDisk
    /\ runs = ("c" :> Run("client", "idle"))
    /\ journal = <<>>
    /\ events = <<>>
    /\ writing = FALSE
    /\ pendingResets = 0
    /\ issued = 0
    /\ AnchorIdle
    /\ SidecarIdle
    /\ TextIdle
    /\ CacheIdle
    /\ HostIdle

PersistNext ==
    \/ ClientAddThread
    \/ ClientAddReply
    \/ ClientToggleReaction
    \/ BeginWrite
    \/ OpenTemp
    \/ WriteTemp
    \/ RenameTemp
    \/ FireChange
    \/ BeginRead
    \/ ReadFile
    \/ ResetWriting

SpecPersist == PersistInit /\ [][PersistNext]_vars

----------------------------------------------------------------------------
(* SpecStore: two runs of the preview panel's message handler and a reader *)
(* on one document. A run reads the sidecar, changes the aggregate it got  *)
(* and writes it back; the runs share the SidecarManager, the sidecar path *)
(* and the temp path, and interleave at every await.                       *)

\* gitService.getUserName() of the extension host
CurrentUser == "alice"

\* A message of the webview: the command and its threadId, commentId and
\* slug (newSlug for reparentThread); the body of a message is never empty
Msg(command, threadId, commentId, slug) ==
    [command |-> command, threadId |-> threadId, commentId |-> commentId, slug |-> slug]

\* The aggregate stored before the runs start
StoredSidecar == [createEmptySidecar(DocName) EXCEPT !.comments = <<StoredThread>>]

\* A stored thread with an entry of the current user and one of another
\* user, and the aggregate that holds it
TwoEntryThread(status) ==
    CommentThread(Uuid(1), AnchorOld, status, FALSE,
                  <<CommentEntry("entry-1", CurrentUser, "b1"),
                    CommentEntry("entry-2", "bob", "b1")>>)

SidecarWith(thread) == [createEmptySidecar(DocName) EXCEPT !.comments = <<thread>>]

\* The messages on the one stored thread: every mutating command, on either
\* entry and for a section the document has or lacks, and one message that
\* names no entry
ThreadMessages ==
    { Msg(c, Uuid(1), "", "") :
          c \in {"replyComment", "resolveThread", "reopenThread", "deleteThread"} }
    \cup { Msg(c, Uuid(1), e, "") :
               c \in {"editComment", "deleteComment", "toggleReaction"},
               e \in {"entry-1", "entry-2"} }
    \cup { Msg("reparentThread", Uuid(1), "", sl) : sl \in {"setup", "gone"} }
    \cup { Msg("toggleReaction", Uuid(1), "", "") }

\* A stored thread whose three entries are all the current user's
OwnEntriesThread ==
    CommentThread(Uuid(1), AnchorOld, "open", FALSE,
                  <<CommentEntry("entry-1", CurrentUser, "b1"),
                    CommentEntry("entry-2", CurrentUser, "b1"),
                    CommentEntry("entry-3", CurrentUser, "b1")>>)

\* The messages a run may receive, by its role: the two handler runs of
\* SpecStore add or delete a thread, the run of SpecLock gets any message
\* on the stored thread, of the runs of SpecDelete one deletes an entry and
\* the other deletes an entry or replies
Menu(role) ==
    CASE role = "handler" ->
            {Msg("addComment", "", "", "intro"), Msg("deleteThread", StoredThread.id, "", "")}
      [] role = "panel"   -> ThreadMessages
      [] role = "deleter" ->
            { Msg("deleteComment", Uuid(1), e, "") : e \in {"entry-1", "entry-2"} }
      [] role = "mutator" ->
            { Msg("deleteComment", Uuid(1), e, "") : e \in {"entry-1", "entry-2"} }
            \cup {Msg("replyComment", Uuid(1), "", "")}
      [] role = "publisher" -> {Msg("publishDrafts", "", "", "")}
      [] role = "any" ->
            ThreadMessages \cup {Msg("addComment", "", "", "intro"),
                                 Msg("publishDrafts", "", "", "")}
      [] role \in {"owner", "guest"} ->
            { Msg("deleteComment", Uuid(1), e, "") : e \in {"entry-1", "entry-2"} }
            \cup {Msg("replyComment", Uuid(1), "", ""), Msg("deleteThread", Uuid(1), "", "")}
      [] OTHER -> {}

HandlerRoles == {"handler", "panel", "deleter", "mutator", "publisher", "owner", "guest",
                 "any"}

\* gitService.getUserName() in the preview of the run: the guest's working
\* copy has another user.name
UserOf(run) == IF run.role = "guest" THEN "bob" ELSE CurrentUser

\* How a publish run ended after it had written the sidecar
PublishOutcomes == {"commitFailed", "pushFailed", "prFailed", "published"}

\* The guards at the head of a case of handleWebViewMessage: the handler
\* returns at once when a member it needs is empty
Rejected(msg) ==
    CASE msg.command \in {"replyComment", "resolveThread", "reopenThread", "deleteThread"} ->
            msg.threadId = ""
      [] msg.command = "reparentThread" -> msg.threadId = "" \/ msg.slug = ""
      [] msg.command \in {"deleteComment", "toggleReaction", "editComment"} ->
            msg.threadId = "" \/ msg.commentId = ""
      [] OTHER -> FALSE

\* A run may take a message: at its start, and a panel run again after the
\* handler of its last message returned
Receptive(run) ==
    \/ run.pc = "ready"
    \/ /\ run.role = "panel"
       /\ run.pc \in {"written", "failed", "returned"}
       /\ run.ops < MaxMessages
    \/ /\ run.role = "publisher"
       /\ run.pc \in PublishOutcomes \cup {"returned"}
       /\ run.ops < MaxMessages

\* handleWebViewMessage up to its await of readSidecar
HandleMessage ==
    \E p \in DOMAIN runs :
        /\ runs[p].role \in HandlerRoles
        /\ Receptive(runs[p])
        /\ \E msg \in Menu(runs[p].role) :
              LET run == [runs[p] EXCEPT !.command = msg.command,
                                         !.touched = msg.threadId,
                                         !.commentId = msg.commentId,
                                         !.slug = msg.slug,
                                         !.ops = @ + 1]
              IN  IF Rejected(msg)
                  THEN /\ runs' = [runs EXCEPT ![p] =
                                     [run EXCEPT !.pc = "returned", !.seen = NoSeen,
                                                 !.result = NullSidecar]]
                       /\ UNCHANGED journal
                  ELSE /\ runs' = [runs EXCEPT ![p] = ReadSidecarCall(run)]
                       /\ journal' = IF existsSync(disk, SidecarOf(p)) THEN journal
                                     ELSE Append(journal,
                                                 JournalEntry("read", p, NullSidecar.sc))
        /\ UNCHANGED <<disk, events, writing, pendingResets, issued, nonStoreVars>>

\* sections.find(s => s.slug === slug) on the document, and createAnchor of
\* the section found
SectionFound(slug) == slug \in Slugs
AnchorOfSlug(slug) == IF slug = AnchorNew.sectionSlug THEN AnchorNew ELSE AnchorOld

\* An addComment that starts from the aggregate of the null result
SidecarOrEmptyUnnamed(read) ==
    IF read.ok THEN read.sc ELSE NullSidecar.sc

\* if (!sidecar) { sidecar = createEmptySidecar(basename(fsPath)) }: the
\* aggregate the addComment case goes on with
SidecarOrEmpty(read) ==
    IF read.ok THEN read.sc ELSE createEmptySidecar(DocName)

\* A case of handleWebViewMessage from the result of readSidecar on: write
\* tells whether the handler calls writeSidecar, sc is the aggregate it
\* passes, uuids the number of uuidv4() calls and touched the id of the
\* thread added (next is the number of uuidv4() values issued so far)
Handled(run, read, next) ==
    LET sc0  == SidecarOrEmpty(read)
        t    == ThreadIndex(sc0, run.touched)
        c    == IF t = 0 THEN 0 ELSE EntryIndex(sc0.comments[t], run.commentId)
        resolved == t # 0 /\ sc0.comments[t].status = "resolved"
        NoWrite  == [write |-> FALSE, sc |-> sc0, uuids |-> 0, touched |-> run.touched]
        Write(sc, n, id) == [write |-> TRUE, sc |-> sc, uuids |-> n, touched |-> id]
    IN  CASE run.command = "addComment" ->
                IF ~SectionFound(run.slug) THEN NoWrite ELSE
                LET added == addThread(sc0,
                                 CommentThread("", AnchorOfSlug(run.slug), "open", TRUE,
                                     <<CommentEntry(Uuid(next + 1), UserOf(run), "b1")>>),
                                 Uuid(next + 2))
                IN  Write(added.sc, 2, added.ret.id)
          [] run.command = "replyComment" ->
                IF ~read.ok \/ resolved THEN NoWrite
                ELSE Write(addReply(sc0, run.touched, CommentEntry("", UserOf(run), "b2"),
                                    Uuid(next + 1)).sc,
                           IF t = 0 THEN 0 ELSE 1, run.touched)
          [] run.command = "resolveThread" ->
                IF ~read.ok THEN NoWrite
                ELSE Write(updateThreadStatus(sc0, run.touched, "resolved").sc, 0, run.touched)
          [] run.command = "reopenThread" ->
                IF ~read.ok THEN NoWrite
                ELSE Write(updateThreadStatus(sc0, run.touched, "open").sc, 0, run.touched)
          [] run.command = "deleteThread" ->
                IF \/ ~read.ok
                   \/ t = 0
                   \/ resolved
                   \/ Len(sc0.comments[t].thread) = 0
                   \/ sc0.comments[t].thread[1].author # UserOf(run)
                THEN NoWrite
                ELSE Write(deleteThread(sc0, run.touched).sc, 0, run.touched)
          [] run.command = "reparentThread" ->
                IF ~read.ok \/ ~SectionFound(run.slug) THEN NoWrite
                ELSE LET r == reparentThread(sc0, run.touched, AnchorOfSlug(run.slug)) IN
                     IF ~r.ret.ok THEN NoWrite ELSE Write(r.sc, 0, run.touched)
          [] run.command = "deleteComment" ->
                IF \/ ~read.ok
                   \/ t = 0
                   \/ resolved
                   \/ c = 0
                   \/ sc0.comments[t].thread[c].author # UserOf(run)
                THEN NoWrite
                ELSE Write(deleteCommentById(sc0, run.touched, run.commentId).sc,
                           0, run.touched)
          [] run.command = "toggleReaction" ->
                IF ~read.ok THEN NoWrite
                ELSE Write(toggleReaction(sc0, run.touched, run.commentId, UserOf(run)).sc,
                           0, run.touched)
          [] run.command = "editComment" ->
                IF \/ ~read.ok
                   \/ t = 0
                   \/ resolved
                   \/ c = 0
                   \/ sc0.comments[t].thread[c].author # UserOf(run)
                THEN NoWrite
                ELSE Write(editComment(sc0, run.touched, run.commentId, "b2", "t1").sc,
                           0, run.touched)
          [] OTHER -> NoWrite

\* The handler from the result of readSidecar to its call of writeSidecar,
\* or to its return without a write
HandleLoaded ==
    \E p \in DOMAIN runs :
        /\ runs[p].role \in HandlerRoles
        /\ runs[p].command # "publishDrafts"
        /\ runs[p].pc = "readDone"
        /\ LET h == Handled(runs[p], runs[p].result, issued) IN
           IF h.write
           THEN /\ runs' = [runs EXCEPT ![p] =
                              [WriteSidecarCall(runs[p], h.sc, "preview")
                                 EXCEPT !.touched = h.touched]]
                /\ journal' = Append(journal, CallEntry(p, h.sc, runs[p].doc, "preview"))
                /\ issued' = issued + h.uuids
                /\ writing' = TRUE
           ELSE /\ runs' = [runs EXCEPT ![p].pc = "returned"]
                /\ UNCHANGED <<journal, issued, writing>>
        /\ UNCHANGED <<disk, events, pendingResets, nonStoreVars>>

StoreInit ==
    /\ disk \in {EmptyDisk, DiskWith(JsonStringify(StoredSidecar))}
    /\ runs = ("h1" :> Run("handler", "ready") @@ "h2" :> Run("handler", "ready")
               @@ "r" :> Run("reader", "idle"))
    /\ journal = IF existsSync(disk, SidecarPath)
                 THEN <<JournalEntry("stored", "", StoredSidecar)>>
                 ELSE <<>>
    /\ events = <<>>
    /\ writing = FALSE
    /\ pendingResets = 0
    /\ issued = 1
    /\ AnchorIdle
    /\ SidecarIdle
    /\ TextIdle
    /\ CacheIdle
    /\ HostIdle

StoreNext ==
    \/ HandleMessage
    \/ HandleLoaded
    \/ BeginRead
    \/ ReadFile
    \/ OpenTemp
    \/ WriteTemp
    \/ RenameTemp
    \/ FireChange
    \/ CleanupTemp
    \/ ResetWriting

SpecStore == StoreInit /\ [][StoreNext]_vars

----------------------------------------------------------------------------
(* SpecNotify: two callers of writeSidecar, making up to MaxWrites calls   *)
(* between them, for either of two documents with any origin or none;      *)
(* calls for the same document may overlap, and then one of them may fail. *)
(* The timer callbacks, which only reset the writing flag, are left        *)
(* pending.                                                                *)

NotifyInit ==
    /\ disk = EmptyDisk
    /\ runs = ("w1" :> Run("writer", "idle") @@ "w2" :> Run("writer", "idle"))
    /\ journal = <<>>
    /\ events = <<>>
    /\ writing = FALSE
    /\ pendingResets = 0
    /\ issued = 0
    /\ AnchorIdle
    /\ SidecarIdle
    /\ TextIdle
    /\ CacheIdle
    /\ HostIdle

NotifyNext ==
    \/ BeginWrite
    \/ OpenTemp
    \/ WriteTemp
    \/ RenameTemp
    \/ FireChange
    \/ CleanupTemp

SpecNotify == NotifyInit /\ [][NotifyNext]_vars

----------------------------------------------------------------------------
(* SpecLock: the preview panel handles up to MaxMessages messages, one     *)
(* after the other, on a sidecar whose one thread is open or resolved.     *)

LockInit ==
    /\ disk \in { DiskWith(JsonStringify(SidecarWith(TwoEntryThread(st)))) :
                     st \in {"open", "resolved"} }
    /\ runs = ("h1" :> Run("panel", "ready"))
    /\ journal = <<JournalEntry("stored", "", ReadResult(ReadFileText(disk, SidecarPath)).sc)>>
    /\ events = <<>>
    /\ writing = FALSE
    /\ pendingResets = 0
    /\ issued = 1
    /\ AnchorIdle
    /\ SidecarIdle
    /\ TextIdle
    /\ CacheIdle
    /\ HostIdle

LockNext ==
    \/ HandleMessage
    \/ HandleLoaded
    \/ ReadFile
    \/ OpenTemp
    \/ WriteTemp
    \/ RenameTemp
    \/ FireChange
    \/ ResetWriting

SpecLock == LockInit /\ [][LockNext]_vars

----------------------------------------------------------------------------
(* SpecDelete: two handler runs on a stored thread with three entries of   *)
(* the current user. One run handles a deleteComment message, the other a  *)
(* deleteComment or a replyComment message; they interleave at every await. *)

DeleteInit ==
    /\ disk = DiskWith(JsonStringify(SidecarWith(OwnEntriesThread)))
    /\ runs = ("h1" :> Run("deleter", "ready") @@ "h2" :> Run("mutator", "ready"))
    /\ journal = <<JournalEntry("stored", "", SidecarWith(OwnEntriesThread))>>
    /\ events = <<>>
    /\ writing = FALSE
    /\ pendingResets = 0
    /\ issued = 1
    /\ AnchorIdle
    /\ SidecarIdle
    /\ TextIdle
    /\ CacheIdle
    /\ HostIdle

DeleteNext ==
    \/ HandleMessage
    \/ HandleLoaded
    \/ ReadFile
    \/ OpenTemp
    \/ WriteTemp
    \/ RenameTemp
    \/ FireChange
    \/ CleanupTemp

SpecDelete == DeleteInit /\ [][DeleteNext]_vars

----------------------------------------------------------------------------
(* SpecOwner: a thread created by one user with a reply of another; the    *)
(* previews of both users handle one message each on the same sidecar.     *)

OwnerInit ==
    /\ disk \in { DiskWith(JsonStringify(SidecarWith(TwoEntryThread(st)))) :
                     st \in {"open", "resolved"} }
    /\ runs = ("h1" :> Run("owner", "ready") @@ "h2" :> Run("guest", "ready"))
    /\ journal = <<JournalEntry("stored", "", ReadResult(ReadFileText(disk, SidecarPath)).sc)>>
    /\ events = <<>>
    /\ writing = FALSE
    /\ pendingResets = 0
    /\ issued = 1
    /\ AnchorIdle
    /\ SidecarIdle
    /\ TextIdle
    /\ CacheIdle
    /\ HostIdle

OwnerNext ==
    \/ HandleMessage
    \/ HandleLoaded
    \/ ReadFile
    \/ OpenTemp
    \/ WriteTemp
    \/ RenameTemp
    \/ FireChange
    \/ CleanupTemp
    \/ ResetWriting

SpecOwner == OwnerInit /\ [][OwnerNext]_vars

----------------------------------------------------------------------------
(* SpecPreview: the preview panel shows one of two documents while a       *)
(* caller of writeSidecar writes the sidecar of either with any origin or  *)
(* none. The user hides and reveals the panel and switches the active      *)
(* editor; the update timer runs out.                                      *)

\* The panel's tab is hidden or revealed
SetVisible ==
    /\ panel.open
    /\ panel' = [panel EXCEPT !.visible = ~@]
    /\ UNCHANGED <<storeVars, git, engineVars>>

\* onDidChangeActiveTextEditor for another markdown document
ChangeActiveEditor ==
    /\ panel.open
    /\ Len(panel.updates) < MaxUpdates
    /\ \E docBase \in DocBases \ {panel.document} :
          panel' = [scheduleUpdate([panel EXCEPT !.document = docBase], "activeEditor")
                      EXCEPT !.armed = FALSE]
    /\ UNCHANGED <<storeVars, git, engineVars>>

\* The timer set by scheduleUpdate runs out: update()
RunUpdate ==
    /\ panel.open
    /\ panel.timer # "none"
    /\ Len(panel.updates) < MaxUpdates
    /\ panel' = [panel EXCEPT !.timer = "none", !.updates = Append(@, panel.timer)]
    /\ UNCHANGED <<storeVars, git, engineVars>>

PreviewInit ==
    /\ disk = EmptyDisk
    /\ runs = ("w1" :> Run("writer", "idle"))
    /\ journal = <<>>
    /\ events = <<>>
    /\ writing = FALSE
    /\ pendingResets = 0
    /\ issued = 0
    /\ git = NoGit
    /\ panel = [NoPanel EXCEPT !.open = TRUE, !.document = DocBase, !.visible = TRUE]
    /\ AnchorIdle
    /\ SidecarIdle
    /\ TextIdle
    /\ CacheIdle

PreviewNext ==
    \/ BeginWrite
    \/ OpenTemp
    \/ WriteTemp
    \/ RenameTemp
    \/ FireChange
    \/ SetVisible
    \/ ChangeActiveEditor
    \/ RunUpdate

SpecPreview == PreviewInit /\ [][PreviewNext]_vars

----------------------------------------------------------------------------
(* SpecRefresh: the preview panel shows one document; documents are saved, *)
(* sidecar change events arrive, the user hides and reveals the panel, and *)
(* the update timer runs out (it does so eventually).                      *)

\* The onDidSaveTextDocument listener, logged like a change event
SaveDocument ==
    /\ panel.open
    /\ Len(panel.log) < MaxMessages
    /\ \E docBase \in DocBases :
          LET after == IF docBase = panel.document
                       THEN scheduleUpdate(panel, "save")
                       ELSE [panel EXCEPT !.armed = FALSE]
          IN  panel' = [after EXCEPT
                          !.armed = FALSE,
                          !.log = Append(@, [event |-> [docPath |-> DocPathOf(docBase),
                                                        origin |-> "save"],
                                             document |-> panel.document,
                                             visible |-> panel.visible,
                                             scheduled |-> after.armed])]
    /\ UNCHANGED <<storeVars, git, engineVars>>

\* sidecarManager.onDidChange calls the panel's listener with an event
SidecarChanged ==
    /\ panel.open
    /\ Len(panel.log) < MaxMessages
    /\ \E docBase \in DocBases, origin \in WriteOrigins :
          panel' = Heard(panel, [docPath |-> DocPathOf(docBase), origin |-> origin])
    /\ UNCHANGED <<storeVars, git, engineVars>>

\* The timer set by scheduleUpdate runs out: update(); the update is
\* recorded with the number of events heard before it
TimerFires ==
    /\ panel.open
    /\ panel.timer # "none"
    /\ panel' = [panel EXCEPT !.timer = "none", !.updates = Append(@, Len(panel.log))]
    /\ UNCHANGED <<storeVars, git, engineVars>>

RefreshInit ==
    /\ panel \in {[NoPanel EXCEPT !.open = TRUE, !.document = DocBase, !.visible = v]
                     : v \in BOOLEAN}
    /\ git = NoGit
    /\ StoreIdle
    /\ AnchorIdle
    /\ SidecarIdle
    /\ TextIdle
    /\ CacheIdle

RefreshNext == SaveDocument \/ SidecarChanged \/ SetVisible \/ TimerFires

SpecRefresh == RefreshInit /\ [][RefreshNext]_vars /\ WF_vars(TimerFires)

----------------------------------------------------------------------------
(* SpecPublish: up to MaxMessages runs of the publish command, one after   *)
(* the other, in a repository whose current branch has the sidecar file    *)
(* committed as it is, committed in an older version, or not at all. Every *)
(* git step and the creation of the pull request may fail.                 *)

\* fs.writeFile(path, text) in one step
WriteFileAt(d, path, text) ==
    LET r == OpenForWrite(d, path) IN WriteFd(r.disk, r.fd, text)

\* The sidecar file is as the last commit of the current branch has it
WorkingTreeClean(d, g) ==
    IF g[g.branch].tracked
    THEN existsSync(d, SidecarPath) /\ ReadFileText(d, SidecarPath) = g[g.branch].text
    ELSE ~existsSync(d, SidecarPath)

\* gitService.checkoutBranch(branch): git checkout fails (ok is false), or
\* switches the branch. A changed sidecar file is kept when both branches
\* have the same commit of it, and makes the checkout fail when they do not;
\* an unchanged one is replaced by the version of the branch, or removed
\* when that branch has none
checkoutBranch(d, g, branch, ok) ==
    IF ~ok THEN [disk |-> d, git |-> g]
    ELSE IF WorkingTreeClean(d, g)
    THEN [disk |-> IF g[branch].tracked THEN WriteFileAt(d, SidecarPath, g[branch].text)
                   ELSE IF existsSync(d, SidecarPath) THEN Unlink(d, SidecarPath)
                   ELSE d,
          git  |-> [g EXCEPT !.branch = branch]]
    ELSE IF g[g.branch] = g[branch]
    THEN [disk |-> d, git |-> [g EXCEPT !.branch = branch]]
    ELSE [disk |-> d, git |-> g]

\* The publish run from the result of readSidecar to its call of
\* writeSidecar: no sidecar or no draft ends it, and so does a provider
\* that is not detected or a branch that is not created; otherwise the new
\* branch is checked out and the aggregate is written with every thread
\* marked as published
PublishLoaded ==
    \E p \in DOMAIN runs, provider \in BOOLEAN, branched \in BOOLEAN :
        /\ runs[p].command = "publishDrafts"
        /\ runs[p].pc = "readDone"
        /\ LET read == runs[p].result IN
           IF ~read.ok \/ getDraftThreads(read.sc) = <<>> \/ ~provider \/ ~branched
           THEN /\ runs' = [runs EXCEPT ![p].pc = "returned"]
                /\ UNCHANGED <<journal, writing, git>>
           ELSE LET published == markAllPublished(read.sc).sc IN
                /\ git' = [git EXCEPT !.branch = "comment", !.comment = git.main]
                /\ runs' = [runs EXCEPT ![p] = WriteSidecarCall(runs[p], published, "internal")]
                /\ journal' = Append(journal, CallEntry(p, published, runs[p].doc, "internal"))
                /\ writing' = TRUE
        /\ UNCHANGED <<disk, events, pendingResets, issued, panel, engineVars>>

\* commitSidecarChanges: git add and git commit on the comment branch; when
\* it fails the run checks out the branch it started on and returns
PublishCommit ==
    \E p \in DOMAIN runs, committed \in BOOLEAN, ok \in BOOLEAN :
        /\ runs[p].command = "publishDrafts"
        /\ runs[p].pc = "written"
        /\ IF committed
           THEN /\ git' = [git EXCEPT !.comment =
                              [tracked |-> TRUE, text |-> ReadFileText(disk, SidecarPath)]]
                /\ runs' = [runs EXCEPT ![p].pc = "committed"]
                /\ UNCHANGED <<disk, journal>>
           ELSE LET r == checkoutBranch(disk, git, "main", ok) IN
                /\ disk' = r.disk
                /\ git' = r.git
                /\ runs' = [runs EXCEPT ![p].pc = "commitFailed"]
                /\ journal' = Append(journal, JournalEntry("commitFailed", p, runs[p].mem))
        /\ UNCHANGED <<events, writing, pendingResets, issued, panel, engineVars>>

\* pushBranch; when it fails the run checks out the branch it started on
PublishPush ==
    \E p \in DOMAIN runs, pushed \in BOOLEAN, ok \in BOOLEAN :
        /\ runs[p].command = "publishDrafts"
        /\ runs[p].pc = "committed"
        /\ IF pushed
           THEN /\ runs' = [runs EXCEPT ![p].pc = "pushed"]
                /\ UNCHANGED <<disk, git, journal>>
           ELSE LET r == checkoutBranch(disk, git, "main", ok) IN
                /\ disk' = r.disk
                /\ git' = r.git
                /\ runs' = [runs EXCEPT ![p].pc = "pushFailed"]
                /\ journal' = Append(journal, JournalEntry("pushFailed", p, runs[p].mem))
        /\ UNCHANGED <<events, writing, pendingResets, issued, panel, engineVars>>

\* createPullRequest of the provider, the checkout of the branch the run
\* started on, and the message that tells whether the request was created
PublishPullRequest ==
    \E p \in DOMAIN runs, created \in BOOLEAN, ok \in BOOLEAN :
        /\ runs[p].command = "publishDrafts"
        /\ runs[p].pc = "pushed"
        /\ LET r == checkoutBranch(disk, git, "main", ok)
               outcome == IF created THEN "published" ELSE "prFailed"
           IN  /\ disk' = r.disk
               /\ git' = r.git
               /\ runs' = [runs EXCEPT ![p].pc = outcome]
               /\ journal' = Append(journal, JournalEntry(outcome, p, runs[p].mem))
        /\ UNCHANGED <<events, writing, pendingResets, issued, panel, engineVars>>

\* A thread that is a draft
DraftThread ==
    CommentThread(Uuid(2), AnchorOld, "open", TRUE,
                  <<CommentEntry("entry-2", CurrentUser, "b1")>>)

\* The aggregates stored before the first run: without a draft, with a
\* draft, with a published thread and a draft
PublishSidecars ==
    { [createEmptySidecar(DocName) EXCEPT !.comments = c] :
          c \in {<<StoredThread>>, <<DraftThread>>, <<StoredThread, DraftThread>>} }

PublishInit ==
    /\ disk \in {EmptyDisk} \cup { DiskWith(JsonStringify(sc)) : sc \in PublishSidecars }
    /\ runs = ("pub" :> Run("publisher", "ready"))
    /\ journal = IF existsSync(disk, SidecarPath)
                 THEN <<JournalEntry("stored", "", ReadResult(ReadFileText(disk, SidecarPath)).sc)>>
                 ELSE <<>>
    /\ events = <<>>
    /\ writing = FALSE
    /\ pendingResets = 0
    /\ issued = 2
    /\ \E main \in {NoCommit,
                    [tracked |-> TRUE, text |-> JsonStringify(createEmptySidecar(DocName))]}
                   \cup (IF existsSync(disk, SidecarPath)
                         THEN {[tracked |-> TRUE, text |-> ReadFileText(disk, SidecarPath)]}
                         ELSE {}) :
          git = [branch |-> "main", main |-> main, comment |-> NoCommit]
    /\ panel = NoPanel
    /\ AnchorIdle
    /\ SidecarIdle
    /\ TextIdle
    /\ CacheIdle

PublishNext ==
    \/ HandleMessage
    \/ ReadFile
    \/ PublishLoaded
    \/ OpenTemp
    \/ WriteTemp
    \/ RenameTemp
    \/ FireChange
    \/ PublishCommit
    \/ PublishPush
    \/ PublishPullRequest
    \/ ResetWriting

SpecPublish == PublishInit /\ [][PublishNext]_vars

----------------------------------------------------------------------------
(* SpecFresh: a text is parsed, a thread is anchored to one of the         *)
(* sections found, and the anchor is looked up and checked for staleness   *)
(* in the same section list.                                               *)

FreshInit ==
    /\ content \in Documents(MaxDocLines)
    /\ parsed = <<>>
    /\ lineArg = 0
    /\ lineFound = 0
    /\ hashArgs = NoHashArgs
    /\ hashes = <<>>
    /\ textPhase = "start"
    /\ sections = <<>>
    /\ threads = <<>>
    /\ sectionCache = <<>>
    /\ updates = <<>>
    /\ applied = <<>>
    /\ anchorArg = NoAnchor
    /\ candidate = 0
    /\ anchored = NoAnchored
    /\ phase = "start"
    /\ SidecarIdle
    /\ CacheIdle
    /\ StoreIdle
    /\ HostIdle

\* A new open thread gets createAnchor of a section of the parsed list
AnchorThread ==
    /\ textPhase = "parsed"
    /\ phase = "start"
    /\ \E k \in DOMAIN parsed :
          /\ anchorArg' = createAnchor(parsed[k])
          /\ threads' = <<CommentThread(Uuid(1), createAnchor(parsed[k]), "open", TRUE,
                                        <<CommentEntry("entry-1", "alice", "b1")>>)>>
    /\ sections' = parsed
    /\ phase' = "anchored"
    /\ UNCHANGED <<sectionCache, updates, applied, candidate, anchored, nonAnchorVars>>

\* engine.detectStaleThreads(sections, threads) on the list the thread was
\* anchored in
DetectFresh ==
    /\ phase = "found"
    /\ updates' = detectStaleThreads(sections, threads)
    /\ phase' = "detected"
    /\ UNCHANGED <<sections, threads, sectionCache, applied, anchorArg, candidate, anchored,
                   nonAnchorVars>>

FreshNext ==
    \/ ParseMarkdownSections
    \/ AnchorThread
    \/ FindAnchoredSection
    \/ DetectFresh

SpecFresh == FreshInit /\ [][FreshNext]_vars

----------------------------------------------------------------------------
(* SpecNull: the preview handles one message of any command while the      *)
(* sidecar file is absent or holds a text readSidecar returns null for.    *)

NullInit ==
    /\ disk \in {EmptyDisk} \cup { DiskWith(text) : text \in {x \in StoredTexts : ~ReadResult(x).ok} }
    /\ runs = ("h1" :> Run("any", "ready"))
    /\ journal = <<>>
    /\ events = <<>>
    /\ writing = FALSE
    /\ pendingResets = 0
    /\ issued = 1
    /\ AnchorIdle
    /\ SidecarIdle
    /\ TextIdle
    /\ CacheIdle
    /\ HostIdle

NullNext ==
    \/ HandleMessage
    \/ HandleLoaded
    \/ PublishLoaded
    \/ ReadFile
    \/ OpenTemp
    \/ WriteTemp
    \/ RenameTemp
    \/ FireChange
    \/ ResetWriting

SpecNull == NullInit /\ [][NullNext]_vars

----------------------------------------------------------------------------
(* SpecFail: two callers of writeSidecar, one call each, on one sidecar    *)
(* file; a call whose rename finds no temp file fails.                     *)

\* The file under the sidecar path: whether there is one, and its text
StoredNow ==
    [exists |-> existsSync(disk, SidecarPath),
     text   |-> IF existsSync(disk, SidecarPath) THEN ReadFileText(disk, SidecarPath)
                ELSE <<>>]

\* The aggregates the callers pass
SavedSidecars == {SidecarWith(TwoEntryThread("open")), SidecarWith(OwnEntriesThread)}

\* A call of writeSidecar; seen keeps what was stored at the time of the call
SaveCall ==
    \E p \in DOMAIN runs, sc \in SavedSidecars :
        /\ runs[p].role = "saver"
        /\ runs[p].pc = "idle"
        /\ runs' = [runs EXCEPT ![p] =
                       [WriteSidecarCall(runs[p], sc, "internal") EXCEPT !.seen = StoredNow]]
        /\ journal' = Append(journal, CallEntry(p, sc, runs[p].doc, "internal"))
        /\ writing' = TRUE
        /\ UNCHANGED <<disk, events, pendingResets, issued, nonStoreVars>>

FailInit ==
    /\ disk \in {EmptyDisk, DiskWith(JsonStringify(StoredSidecar))}
    /\ runs = ("s1" :> Run("saver", "idle") @@ "s2" :> Run("saver", "idle"))
    /\ journal = <<>>
    /\ events = <<>>
    /\ writing = FALSE
    /\ pendingResets = 0
    /\ issued = 1
    /\ AnchorIdle
    /\ SidecarIdle
    /\ TextIdle
    /\ CacheIdle
    /\ HostIdle

FailNext ==
    \/ SaveCall
    \/ OpenTemp
    \/ WriteTemp
    \/ RenameTemp
    \/ CleanupTemp
    \/ FireChange
    \/ ResetWriting

SpecFail == FailInit /\ [][FailNext]_vars

----------------------------------------------------------------------------
(* SpecComment: the preview panel shows a document whose text is edited;   *)
(* the panel updates, and its addComment handler anchors new threads.      *)

\* PreviewPanel.update: clearCache, then getSections of the document shown
PreviewUpdate ==
    /\ Len(cacheLog) < MaxCacheOps
    /\ LET r == getSections(clearCache(sectionCache, DocUri), DocUri, docs[DocUri]) IN
       /\ sectionCache' = r.cache
       /\ returned' = r.ret
    /\ cacheLog' = Append(cacheLog, CacheEvent("update", DocUri, docs[DocUri]))
    /\ UNCHANGED <<docs, sections, threads, updates, applied, anchorArg, candidate, anchored,
                   phase, sidecarVars, textVars, storeVars, hostVars>>

\* The addComment case of handleWebViewMessage up to createAnchor: the
\* section with the slug of the message is looked up in getSections
AddCommentAnchor ==
    /\ Len(cacheLog) < MaxCacheOps
    /\ \E slug \in {<<"a">>, <<"b">>} :
          LET r == getSections(sectionCache, DocUri, docs[DocUri])
              i == findSectionBySlug(r.ret, slug)
          IN  /\ sectionCache' = r.cache
              /\ returned' = r.ret
              /\ anchorArg' = IF i = 0 THEN NoAnchor ELSE createAnchor(r.ret[i])
              /\ phase' = IF i = 0 THEN "rejected" ELSE "commented"
    /\ cacheLog' = Append(cacheLog, CacheEvent("addComment", DocUri, docs[DocUri]))
    /\ UNCHANGED <<docs, sections, threads, updates, applied, candidate, anchored,
                   sidecarVars, textVars, storeVars, hostVars>>

CommentNext == PreviewUpdate \/ ChangeText \/ AddCommentAnchor

SpecComment == CacheInit /\ [][CommentNext]_vars

----------------------------------------------------------------------------
(* Properties of the sidecar store                                         *)

\* The events of the journal, in order
JournalEvents == [k \in DOMAIN journal |-> journal[k].ev]

\* Index of the last journal entry with that event; 0 if there is none
LastEntry(ev) ==
    IF \E k \in DOMAIN journal : journal[k].ev = ev
    THEN CHOOSE k \in DOMAIN journal :
            /\ journal[k].ev = ev
            /\ \A j \in DOMAIN journal : journal[j].ev = ev => j <= k
    ELSE 0

\* C17: a readSidecar that follows a completed writeSidecar, with no other
\* write in between, returns an aggregate equal to the one written: the
\* same threads in the same order with the same ids, each thread's entries
\* in insertion order. Before any write, with no file, it returns null.
C17_PersistenceRoundTrip ==
    \A p \in DOMAIN runs :
        (runs[p].role = "client" /\ runs[p].pc = "readDone") =>
            IF LastEntry("done") = 0
            THEN ~runs[p].result.ok
            ELSE /\ runs[p].result.ok
                 /\ runs[p].result.sc = journal[LastEntry("done")].sc
                 /\ runs[p].mem = runs[p].result.sc

\* add-thread, write, read, add-reply with the returned id, write, read:
\* the thread read back has exactly two entries, the reply last
C17_Witness ==
    /\ runs["c"].pc = "readDone"
    /\ runs["c"].ops = 6
    /\ JournalEvents = <<"call", "done", "fired", "read", "call", "done", "fired", "read">>
    /\ Len(journal[2].sc.comments) = 1
    /\ Len(journal[2].sc.comments[1].thread) = 1
    /\ runs["c"].result.ok
    /\ Len(runs["c"].result.sc.comments) = 1
    /\ runs["c"].result.sc.comments[1].id = journal[2].sc.comments[1].id
    /\ Len(runs["c"].result.sc.comments[1].thread) = 2
    /\ runs["c"].result.sc.comments[1].thread[1] = journal[2].sc.comments[1].thread[1]
    /\ runs["c"].result.sc.comments[1].thread[2].author = ReplyInput.author
    /\ runs["c"].result.sc.comments[1].thread[2].body = ReplyInput.body

\* The members a stored entry and a stored thread must have (types.ts 16-46)
CompleteEntry(j) == EntryKeys \subseteq j.keys

CompleteThread(j) ==
    /\ ThreadKeys \subseteq j.keys
    /\ \A k \in DOMAIN j.thread : CompleteEntry(j.thread[k])

\* The payload is malformed: the file is missing, the text is not JSON or
\* not an object, doc is not a string, version is not '1.0', comments is
\* not an array, or a thread or an entry lacks a required member
Malformed(seen) ==
    \/ ~seen.exists
    \/ LET data == JsonParse(seen.text) IN
       \/ ~data.ok
       \/ data.type # "object"
       \/ {"doc", "version", "comments"} \ data.members.keys # {}
       \/ data.members.doc.type # "string"
       \/ data.members.version # JString("1.0")
       \/ data.members.commentsType # "array"
       \/ \E k \in DOMAIN seen.text :
             seen.text[k].t = "item" /\ ~CompleteThread(seen.text[k].val)

\* C18: readSidecar returns null, never a partial aggregate, whenever the
\* stored payload is malformed: no file, invalid JSON, doc not a string,
\* version not '1.0', comments not an array, or a required member of the
\* aggregate, of a thread or of an entry missing.
C18_MalformedReadsAsNull ==
    \A p \in DOMAIN runs :
        (runs[p].pc = "readDone" /\ Malformed(runs[p].seen)) => ~runs[p].result.ok

\* C18, the part about the members of the top-level object alone
TopLevelMalformedReadsAsNull ==
    \A p \in DOMAIN runs :
        (/\ runs[p].pc = "readDone"
         /\ Malformed(runs[p].seen)
         /\ \A k \in DOMAIN runs[p].seen.text :
               runs[p].seen.text[k].t = "item" => CompleteThread(runs[p].seen.text[k].val))
            => ~runs[p].result.ok

\* The complete contents the sidecar file was ever meant to hold: the text
\* stored at the start and the text of every writeSidecar call so far
CompleteContents ==
    { JsonStringify(journal[k].sc) :
          k \in {j \in DOMAIN journal : journal[j].ev \in {"stored", "call"}} }

\* C19: under every interleaving of writeSidecar and readSidecar calls on
\* one document, two overlapping writeSidecar calls included, a read that
\* finds the file reads exactly the complete content of one writeSidecar
\* call (or the content stored before), never a partial or a mixed text.
C19_AtomicReplace ==
    \A p \in DOMAIN runs :
        (runs[p].pc = "readDone" /\ runs[p].seen.exists) =>
            runs[p].seen.text \in CompleteContents

\* Both runs have called writeSidecar and both calls have settled
BothWritesSettled ==
    \A p \in {"h1", "h2"} : runs[p].pc \in {"written", "failed"}

\* Index of the last journal entry of a writeSidecar that settled: with
\* onlyDone, of one that was fulfilled
LastSettled(onlyDone) ==
    IF onlyDone THEN LastEntry("done")
    ELSE IF LastEntry("done") >= LastEntry("failed") THEN LastEntry("done")
    ELSE LastEntry("failed")

\* What readSidecar would return from the sidecar file as it is
StoredResult ==
    IF existsSync(disk, SidecarPath)
    THEN ReadResult(ReadFileText(disk, SidecarPath))
    ELSE NullSidecar

\* Both runs got the result of their read before either called writeSidecar
BothReadsFirst ==
    \A k \in DOMAIN journal : journal[k].ev = "call" =>
        \A p \in {"h1", "h2"} : \E j \in 1..(k - 1) :
            journal[j].ev \in {"read", "call"} /\ journal[j].by = p

\* C20: when two handler runs each read the aggregate, change it in memory
\* and write it back, then under every interleaving the aggregate stored
\* after both writes is the in-memory aggregate of the run whose write
\* completed last (fulfilled last, or settled last); and when both reads
\* came before both writes, the thread added by the earlier writer is not
\* in storage.
C20_LastWriterWins ==
    BothWritesSettled =>
        /\ StoredResult.ok
        /\ \/ LastEntry("done") > 0 /\ StoredResult.sc = journal[LastSettled(TRUE)].sc
           \/ StoredResult.sc = journal[LastSettled(FALSE)].sc
        /\ BothReadsFirst =>
              \A p \in {"h1", "h2"} :
                 (/\ runs[p].command = "addComment"
                  /\ runs[p].mem # StoredResult.sc)
                    => ~HasThread(StoredResult.sc, runs[p].touched)

\* The journal entries of the writeSidecar call entered at index c: what
\* its caller logged after c and before its next call
EntriesOfCall(c) ==
    { k \in DOMAIN journal :
        /\ k > c
        /\ journal[k].by = journal[c].by
        /\ journal[k].ev \in {"done", "failed", "fired"}
        /\ \A j \in (c + 1)..(k - 1) :
              ~(journal[j].ev = "call" /\ journal[j].by = journal[c].by) }

\* The call entered at index c has returned or thrown
CallSettled(c) ==
    \/ runs[journal[c].by].pc \in {"written", "failed"}
    \/ \E j \in DOMAIN journal :
          j > c /\ journal[j].ev = "call" /\ journal[j].by = journal[c].by

\* The event fired at journal index f
EventFiredAt(f) ==
    events[Cardinality({j \in 1..f : journal[j].ev = "fired"})]

\* C21: every writeSidecar call that completes successfully fires exactly
\* one onDidChange event, after the file has been replaced, carrying the
\* docPath of the call and the origin passed to it ('internal' when none is
\* passed); a call that fails fires no event; no other event is fired.
C21_ChangeNotification ==
    /\ Len(events) = Cardinality({k \in DOMAIN journal : journal[k].ev = "fired"})
    /\ \A c \in DOMAIN journal : journal[c].ev = "call" =>
          LET mine   == EntriesOfCall(c)
              done   == {k \in mine : journal[k].ev = "done"}
              failed == {k \in mine : journal[k].ev = "failed"}
              fired  == {k \in mine : journal[k].ev = "fired"}
          IN  /\ Cardinality(fired) <= 1
              /\ \A f \in fired : \E d \in done : d < f
              /\ failed # {} => fired = {}
              /\ (CallSettled(c) /\ done # {}) => Cardinality(fired) = 1
              /\ \A f \in fired :
                    EventFiredAt(f) =
                        [docPath |-> DocPathOf(journal[c].doc),
                         origin  |-> IF journal[c].origin \in WriteOrigins
                                     THEN journal[c].origin ELSE "internal"]

\* Two overlapping calls for the second document have settled: the one
\* without origin fired its event with origin 'internal', the other failed
C21_Witness ==
    /\ \A p \in DOMAIN runs : runs[p].pc \in {"written", "failed"}
    /\ \E k \in DOMAIN journal : journal[k].ev = "failed" /\ journal[k].by = "w2"
    /\ \E c \in DOMAIN journal :
          /\ journal[c].ev = "call"
          /\ journal[c].by = "w1"
          /\ journal[c].origin = Undefined
          /\ journal[c].doc = OtherDocBase
          /\ \E f \in EntriesOfCall(c) : journal[f].ev = "fired"
    /\ events = <<[docPath |-> DocPathOf(OtherDocBase), origin |-> "internal"]>>

\* The handler of the run's last message has decided what to do with an
\* aggregate in which the thread the message names is resolved
DecidedOnResolved(p) ==
    /\ runs[p].pc \notin {"ready", "readFile", "readDone"}
    /\ runs[p].result.ok
    /\ LET t == ThreadIndex(runs[p].result.sc, runs[p].touched) IN
       t # 0 /\ runs[p].result.sc.comments[t].status = "resolved"

\* The commands the specification names as locked on a resolved thread
LockedCommands ==
    {"replyComment", "editComment", "deleteComment", "deleteThread",
     "toggleReaction", "reparentThread"}

\* The run handling such a command on a resolved thread returned without a
\* write, and the sidecar file holds what the handler read
LockedFor(commands) ==
    \A p \in DOMAIN runs :
        (runs[p].command \in commands /\ DecidedOnResolved(p)) =>
            /\ runs[p].pc = "returned"
            /\ StoredResult = runs[p].result

\* C27: while the stored status of a thread is resolved, the handlers of
\* replyComment, editComment, deleteComment, deleteThread, toggleReaction
\* and reparentThread on that thread perform no write and leave the stored
\* thread unchanged.
C27_ResolvedThreadLocked == LockedFor(LockedCommands)

\* The four handlers that check the status do lock a resolved thread
CheckedHandlersLock ==
    LockedFor({"replyComment", "editComment", "deleteComment", "deleteThread"})

\* The aggregate without the entries of thread t whose id is commentId; a
\* thread left without entries is not part of it
WithoutEntry(sc, t, commentId) ==
    LET rest == SelectSeq(sc.comments[t].thread, LAMBDA e : e.id # commentId) IN
    IF rest = <<>> THEN [sc EXCEPT !.comments = RemoveAt(@, t)]
    ELSE [sc EXCEPT !.comments[t].thread = rest]

\* The aggregates the run passed to writeSidecar
WrittenBy(p) ==
    { journal[k].sc : k \in {j \in DOMAIN journal :
                                journal[j].ev = "call" /\ journal[j].by = p} }

\* C30: under every interleaving of a deleteComment handler with handlers
\* that add or remove entries of the same thread, the aggregate the handler
\* writes is the one it read less the one entry whose id is the requested
\* commentId, and the handler writes nothing when the aggregate it read no
\* longer has an entry with that id.
C30_DeleteByIdSafe ==
    \A p \in DOMAIN runs :
        (runs[p].command = "deleteComment"
            /\ runs[p].pc \notin {"ready", "readFile", "readDone"}) =>
        LET read == runs[p].result
            t    == ThreadIndex(read.sc, runs[p].touched)
            c    == IF t = 0 THEN 0 ELSE EntryIndex(read.sc.comments[t], runs[p].commentId)
        IN  IF ~read.ok \/ c = 0
            THEN runs[p].pc = "returned" /\ WrittenBy(p) = {}
            ELSE /\ WrittenBy(p) \subseteq {WithoutEntry(read.sc, t, runs[p].commentId)}
                 /\ runs[p].pc # "returned" => WrittenBy(p) # {}
                 /\ Len(read.sc.comments[t].thread)
                      = 1 + Len(SelectSeq(read.sc.comments[t].thread,
                                          LAMBDA e : e.id # runs[p].commentId))

\* The other run deleted entry-1 and replaced the file before this run read
\* it; this run then deleted entry-2, and the file holds entry-3 alone
C30_Witness ==
    /\ runs["h2"].command = "deleteComment" /\ runs["h2"].commentId = "entry-1"
    /\ runs["h1"].commentId = "entry-2"
    /\ runs["h1"].pc = "written"
    /\ \E j, k \in DOMAIN journal :
          /\ j < k
          /\ journal[j].ev = "done" /\ journal[j].by = "h2"
          /\ journal[k].ev = "read" /\ journal[k].by = "h1"
    /\ StoredResult.ok
    /\ StoredResult.sc.comments = <<[OwnEntriesThread EXCEPT !.thread = <<@[3]>>]>>

\* The run was asked to delete an entry that the other run had deleted
\* before it read the file: it returned without a write
DeleteOfGoneEntryReturns ==
    /\ runs["h1"].command = "deleteComment" /\ runs["h1"].commentId = "entry-1"
    /\ runs["h1"].pc = "returned"
    /\ runs["h1"].result.ok
    /\ runs["h2"].commentId = "entry-1" /\ runs["h2"].pc = "written"

\* C29: the preview panel's onDidChange listener schedules an update if
\* and only if the event's origin is not 'preview', the event's docPath is
\* the path of the document the panel shows, and the panel is visible; no
\* timer is pending for, and no update ran from, an event of origin
\* 'preview'.
C29_PreviewSkipsOwnWrites ==
    /\ Len(panel.log) = Len(events)
    /\ \A k \in DOMAIN panel.log :
          LET h == panel.log[k] IN
          /\ h.event = events[k]
          /\ h.scheduled <=> /\ h.event.origin # "preview"
                             /\ h.event.docPath = DocPathOf(h.document)
                             /\ h.visible
    /\ panel.timer # "preview"
    /\ \A k \in DOMAIN panel.updates : panel.updates[k] # "preview"

\* The visible panel heard a 'preview' event for the document it shows and
\* set no timer, then an event of another origin, whose update ran
C29_Witness ==
    /\ Len(panel.log) = 2
    /\ panel.log[1].event = [docPath |-> DocPathOf(DocBase), origin |-> "preview"]
    /\ panel.log[1].document = DocBase /\ panel.log[1].visible
    /\ ~panel.log[1].scheduled
    /\ panel.log[2].event.origin = "editor" /\ panel.log[2].scheduled
    /\ panel.updates = <<"editor">>

\* The sidecar file holds the thread with that id as a draft
StoredAsDraft(id) ==
    /\ StoredResult.ok
    /\ \E i \in DOMAIN StoredResult.sc.comments :
          StoredResult.sc.comments[i].id = id /\ StoredResult.sc.comments[i].isDraft

\* The sidecar file holds the thread with that id as published
StoredAsPublished(id) ==
    /\ StoredResult.ok
    /\ \E i \in DOMAIN StoredResult.sc.comments :
          StoredResult.sc.comments[i].id = id /\ ~StoredResult.sc.comments[i].isDraft

\* C28: between publish runs a thread that was stored as a draft is stored
\* as published only if a publish run completed (branch created, sidecar
\* committed, branch pushed, pull request created); after a run whose
\* commit, push or pull-request creation failed, every thread that was a
\* draft when the run read the sidecar is still stored as a draft.
C28_DraftsUntilPublished ==
    \A p \in DOMAIN runs :
        runs[p].command = "publishDrafts" =>
            /\ runs[p].pc \in PublishOutcomes \ {"published"} =>
                  \A i \in DOMAIN runs[p].result.sc.comments :
                      runs[p].result.sc.comments[i].isDraft =>
                          StoredAsDraft(runs[p].result.sc.comments[i].id)
            /\ runs[p].pc \in PublishOutcomes \cup {"returned"} =>
                  \A i \in DOMAIN journal[1].sc.comments :
                      (journal[1].sc.comments[i].isDraft
                          /\ StoredAsPublished(journal[1].sc.comments[i].id)) =>
                      \E k \in DOMAIN journal : journal[k].ev = "published"

\* A run that ends before the branch is created leaves the sidecar file as
\* it read it
EarlyReturnKeepsSidecar ==
    \A p \in DOMAIN runs :
        (runs[p].command = "publishDrafts" /\ runs[p].pc = "returned"
            /\ runs[p].ops = 1 /\ runs[p].result.ok) =>
        StoredResult = runs[p].result

----------------------------------------------------------------------------
(* Properties of the markdown parser                                       *)

\* Number of lines of a text: one more than its line breaks, CR LF being one
LineCount(text) ==
    1 + Cardinality({k \in DOMAIN text : text[k] = LF})
      + Cardinality({k \in DOMAIN text :
                        text[k] = CR /\ ~(k < Len(text) /\ text[k + 1] = LF)})

\* The line with the 0-based index i
LineAt(text, i) == NormalizedLines(text)[i + 1]

\* The line starts with three backticks or three tildes
FenceShaped(line) ==
    /\ Len(line) >= 3
    /\ \/ \A k \in 1..3 : line[k] = Backtick
       \/ \A k \in 1..3 : line[k] = "~"

\* 1 to 6 '#', a whitespace character, and at least one more character
HeadingShaped(line) ==
    \E n \in 1..6 :
        /\ Len(line) >= n + 2
        /\ \A k \in 1..n : line[k] = "#"
        /\ line[n + 1] \in WhitespaceChars

\* The line at index i lies after an opening fence line that no later
\* fence line has closed before i
InsideFence(text, i) ==
    Cardinality({j \in 0..(i - 1) : FenceShaped(LineAt(text, j))}) % 2 = 1

\* C11: the sections parseMarkdownSections returns are in document order
\* (startLine strictly increasing), no two of their ranges
\* [startLine, endLine) share a line, and each has
\* startLine < endLine <= number of lines of the text.
C11_SectionsOrderedDisjoint ==
    textPhase \in {"parsed", "found"} =>
        /\ \A k \in DOMAIN parsed :
              /\ 0 <= parsed[k].startLine
              /\ parsed[k].startLine < parsed[k].endLine
              /\ parsed[k].endLine <= LineCount(content)
        /\ \A j, k \in DOMAIN parsed :
              j < k => /\ parsed[j].startLine < parsed[k].startLine
                       /\ ~\E l \in 0..LineCount(content) :
                              /\ parsed[j].startLine <= l /\ l < parsed[j].endLine
                              /\ parsed[k].startLine <= l /\ l < parsed[k].endLine

\* two sections after a line of preamble, in a text with CR LF line breaks
C11_Witness ==
    /\ textPhase = "parsed"
    /\ Len(parsed) = 2
    /\ parsed[1].startLine = 1
    /\ parsed[2].endLine = 4
    /\ \E k \in DOMAIN content : content[k] = CR

\* C12: code-fence immunity - a line starting with three or more backticks
\* or tildes toggles the fence state; no heading-shaped line between an
\* opening fence line and the next fence line (or the end of the text)
\* starts a section, and every section starts at a heading-shaped line
\* outside all fences.
C12_FenceImmunity ==
    textPhase \in {"parsed", "found"} =>
        /\ \A i \in 0..(LineCount(content) - 1) :
              (HeadingShaped(LineAt(content, i)) /\ InsideFence(content, i))
                 => \A k \in DOMAIN parsed : parsed[k].startLine # i
        /\ \A k \in DOMAIN parsed :
              /\ HeadingShaped(LineAt(content, parsed[k].startLine))
              /\ ~InsideFence(content, parsed[k].startLine)

\* a section, then a heading inside a closed fence, then a heading inside
\* a fence that is never closed
C12_Witness ==
    /\ textPhase = "parsed"
    /\ Len(parsed) = 1
    /\ LineCount(content) = 4
    /\ FenceShaped(LineAt(content, 1))
    /\ ~FenceShaped(LineAt(content, 2))
    /\ HeadingShaped(LineAt(content, 3))
    /\ InsideFence(content, 3)

\* C13: half-open containment - for every section s of the list
\* parseMarkdownSections returned, findSectionByLine(sections, s.startLine)
\* is s, and findSectionByLine(sections, s.endLine) is the section that
\* follows s in the list, or undefined when s is the last one.
C13_HalfOpenContainment ==
    textPhase = "found" =>
        \A k \in DOMAIN parsed :
            /\ lineArg = parsed[k].startLine => lineFound = k
            /\ lineArg = parsed[k].endLine =>
                  lineFound = IF k < Len(parsed) THEN k + 1 ELSE 0

\* The indices of the heading lines outside every fence
HeadingLines(text) ==
    {i \in 0..(LineCount(text) - 1) :
        HeadingShaped(LineAt(text, i)) /\ ~InsideFence(text, i)}

\* C31: parseMarkdownSections yields one section for every heading line
\* outside a fence, a heading whose text is only whitespace included; each
\* section's endLine is the next section's startLine and the last section's
\* endLine is the number of lines, so every line from the first heading line
\* on lies in exactly one section.
C31_SectionsTileDocument ==
    textPhase \in {"parsed", "found"} =>
        /\ {parsed[k].startLine : k \in DOMAIN parsed} = HeadingLines(content)
        /\ Len(parsed) = Cardinality(HeadingLines(content))
        /\ \A k \in 1..(Len(parsed) - 1) : parsed[k].endLine = parsed[k + 1].startLine
        /\ parsed # <<>> => parsed[Len(parsed)].endLine = LineCount(content)

\* The sections tile the text when no heading of it is only whitespace
TilesWithoutBlankHeadings ==
    (textPhase \in {"parsed", "found"}
        /\ \A i \in HeadingLines(content) : trim(HeadingMatch(LineAt(content, i)).text) # <<>>)
    => /\ {parsed[k].startLine : k \in DOMAIN parsed} = HeadingLines(content)
       /\ \A k \in 1..(Len(parsed) - 1) : parsed[k].endLine = parsed[k + 1].startLine
       /\ parsed # <<>> => parsed[Len(parsed)].endLine = LineCount(content)

\* The anchor was found at the section it was made from, and not stale; the
\* open thread carrying it got no update
FreshAnchorConsistent ==
    /\ phase \in {"found", "detected"} =>
          /\ anchored.found
          /\ sections[anchored.index].startLine = anchorArg.lineHint
          /\ ~anchored.isStale
    /\ phase = "detected" => updates = <<>>

\* C32: for every section list produced by parseMarkdownSections and every
\* section s of it, findAnchoredSection(sections, createAnchor(s)) returns
\* s with isStale = false and detectStaleThreads returns no update for an
\* open thread anchored by createAnchor(s), also when two sections of the
\* list have the same slug.
C32_FreshAnchorConsistent == FreshAnchorConsistent

\* The same holds in every list whose slugs are pairwise distinct
FreshWhenSlugsDistinct ==
    (\A j, k \in DOMAIN sections : j # k => sections[j].slug # sections[k].slug)
        => FreshAnchorConsistent

\* The last step was an addComment that anchored a thread
JustCommented ==
    /\ cacheLog # <<>>
    /\ cacheLog[Len(cacheLog)].op = "addComment"
    /\ phase = "commented"

\* The anchor is createAnchor of the first section with its slug in the
\* parse of the text the document has
AnchorOfCurrentText ==
    LET now == parseMarkdownSections(docs[DocUri])
        i   == findSectionBySlug(now, anchorArg.sectionSlug)
    IN  i # 0 /\ anchorArg = createAnchor(now[i])

\* C33: the anchor the addComment handler stores is createAnchor of the
\* section with the requested slug in the parse of the document's text at
\* the time the handler runs, also when the text changed after the last
\* preview update without the cache being cleared.
C33_AddCommentAnchorsCurrentText ==
    JustCommented => AnchorOfCurrentText

\* The anchor is that of the current text when no edit came between the
\* last update and the addComment
AnchorCurrentRightAfterUpdate ==
    (JustCommented /\ Len(cacheLog) >= 2
        /\ cacheLog[Len(cacheLog) - 1].op \in {"update", "addComment"}
        /\ cacheLog[Len(cacheLog) - 1].text = docs[DocUri]
        /\ \A k \in 1..(Len(cacheLog) - 1) :
              (cacheLog[k].op = "edit" /\ cacheLog[k].uri = DocUri) =>
                  \E j \in (k + 1)..(Len(cacheLog) - 1) : cacheLog[j].op = "update")
    => AnchorOfCurrentText

\* The status a thread that is not resolved has to have for the sections
StatusForSections(secs, thread) ==
    LET result == findAnchoredSection(secs, thread.anchor) IN
    IF ~result.found \/ result.isStale THEN "stale" ELSE "open"

\* C34: after the updates of detectStaleThreads are applied, every thread
\* that is not resolved is stale exactly when its anchor is orphaned or
\* drifted and open exactly when it is found with an equal contentHash,
\* after every round of a sequence of document changes, resolve and reopen
\* actions and rounds.
C34_StatusMatchesAnchorAfterRound ==
    phase = "applied" =>
        \A i \in DOMAIN threads :
            threads[i].status # "resolved" =>
                threads[i].status = StatusForSections(sections, threads[i])

\* A round, after a change, that turned one thread stale and another open
C34_Witness ==
    /\ phase = "applied"
    /\ \E k \in DOMAIN applied : applied[k].newStatus = "open"
    /\ \E k \in DOMAIN applied : applied[k].newStatus = "stale"
    /\ \E i \in DOMAIN threads : threads[i].isDraft

\* The author of the entry the stored thread was created with
ThreadCreator == TwoEntryThread("open").thread[1].author

\* The run's deleteThread handler has passed an aggregate to writeSidecar
DeletedThread(p) ==
    /\ runs[p].command = "deleteThread"
    /\ WrittenBy(p) # {}

\* C35: through the deleteThread handler a thread is deleted only by the
\* user who created it and only while it is not resolved, after any earlier
\* replies and comment deletions by any users; for every other user the
\* handler performs no write.
C35_OnlyCreatorDeletesThread ==
    \A p \in DOMAIN runs :
        DeletedThread(p) =>
            /\ UserOf(runs[p]) = ThreadCreator
            /\ LET t == ThreadIndex(runs[p].result.sc, Uuid(1)) IN
               t # 0 /\ runs[p].result.sc.comments[t].status # "resolved"

\* What the handler does check: the thread it read is not resolved and its
\* first entry is by the current user
DeleteThreadByFirstAuthor ==
    \A p \in DOMAIN runs :
        DeletedThread(p) =>
            LET t == ThreadIndex(runs[p].result.sc, Uuid(1)) IN
            /\ t # 0
            /\ runs[p].result.sc.comments[t].status # "resolved"
            /\ runs[p].result.sc.comments[t].thread[1].author = UserOf(runs[p])

\* The mutators that are called with a thread id
ThreadMutators ==
    {"addReply", "deleteThread", "deleteComment", "deleteCommentById", "toggleReaction",
     "editComment", "updateThreadStatus", "reparentThread"}

\* The threads of the aggregate other than the one with the id, in order
OtherThreads(sc, threadId) ==
    SelectSeq(sc.comments, LAMBDA t : t.id # threadId)

\* C36: in every aggregate reached by mutator calls, with the id generator
\* returning fresh values, no two threads share an id, and a mutator called
\* with a thread id changes no thread other than the one with that id and
\* keeps the relative order of the other threads.
C36_DistinctIdsLocalMutators ==
    /\ \A i, j \in DOMAIN sidecar.comments :
           sidecar.comments[i].id = sidecar.comments[j].id => i = j
    /\ call.op \in ThreadMutators =>
           OtherThreads(sidecar, call.threadId) = OtherThreads(prev, call.threadId)

\* A mutator changed the second of three threads
C36_Witness ==
    /\ call.op \in ThreadMutators
    /\ Len(prev.comments) = 3
    /\ prev.comments[2].id = call.threadId
    /\ sidecar # prev
    /\ Len(OtherThreads(sidecar, call.threadId)) = 2

\* The k-th event the panel heard is a save of the document shown or a
\* sidecar change for it with an origin other than 'preview'
AsksForRefresh(k) ==
    /\ k \in DOMAIN panel.log
    /\ panel.log[k].event.docPath = DocPathOf(panel.log[k].document)
    /\ panel.log[k].event.origin # "preview"

\* update() ran after the k-th event
UpdatedAfter(k) ==
    \E u \in DOMAIN panel.updates : panel.updates[u] >= k

\* C37: after every save of the displayed document and every sidecar change
\* event for it with an origin other than 'preview', the preview eventually
\* runs update(), given that timers eventually fire, also when the panel
\* was not visible at the time of the event and is visible later.
C37_RefreshEventually ==
    \A k \in 1..MaxMessages :
        (AsksForRefresh(k) /\ panel.visible) ~> UpdatedAfter(k)

\* Every event asking for a refresh was heard while the panel was visible
AllHeardVisible ==
    \A j \in DOMAIN panel.log : AsksForRefresh(j) => panel.log[j].visible

\* The update does come when the panel is visible at each such event
RefreshWhenHeardVisible ==
    \A k \in 1..MaxMessages :
        (AsksForRefresh(k) /\ AllHeardVisible) ~> (UpdatedAfter(k) \/ ~AllHeardVisible)

\* The handler of the run's message has gone on from a null readSidecar
DecidedOnNull(p) ==
    /\ runs[p].pc \notin {"ready", "readFile", "readDone"}
    /\ ~runs[p].result.ok

\* An aggregate for the document that holds exactly one thread, new, open,
\* a draft, with one entry by the user
OneNewThread(sc, p) ==
    /\ sc.doc = DocName
    /\ Len(sc.comments) = 1
    /\ sc.comments[1].status = "open"
    /\ sc.comments[1].isDraft
    /\ sc.comments[1].anchor = AnchorOfSlug(runs[p].slug)
    /\ Len(sc.comments[1].thread) = 1
    /\ sc.comments[1].thread[1].author = UserOf(runs[p])

\* C38: when readSidecar returns null, for an absent file and for a
\* malformed one alike, the handlers of replyComment, resolveThread,
\* reopenThread, deleteThread, deleteComment, editComment, toggleReaction,
\* reparentThread and publishDrafts perform no write and fire no change
\* event, and addComment writes an aggregate with exactly the new thread.
C38_NullSidecarHandling ==
    \A p \in DOMAIN runs :
        DecidedOnNull(p) =>
            IF runs[p].command = "addComment"
            THEN /\ WrittenBy(p) # {}
                 /\ \A sc \in WrittenBy(p) : OneNewThread(sc, p)
            ELSE /\ runs[p].pc = "returned"
                 /\ WrittenBy(p) = {}
                 /\ events = <<>>

\* addComment has written over a file that was there and malformed
C38_Witness ==
    \E p \in DOMAIN runs :
        /\ DecidedOnNull(p)
        /\ runs[p].command = "addComment"
        /\ runs[p].seen.exists
        /\ runs[p].pc = "written"
        /\ ReadResult(ReadFileText(disk, SidecarPath)).ok

\* Every other command has returned on a malformed file
C38_ReturnedOnMalformed ==
    \E p \in DOMAIN runs :
        /\ DecidedOnNull(p)
        /\ runs[p].command = "resolveThread"
        /\ runs[p].seen.exists

\* After an event that asked for a refresh was heard by the hidden panel,
\* no timer is pending, whatever the visibility becomes: without a further
\* event nothing is left that would run update()
HiddenEventLeavesNoTimer ==
    (/\ panel.log # <<>>
     /\ AsksForRefresh(Len(panel.log))
     /\ ~panel.log[Len(panel.log)].visible
     /\ ~UpdatedAfter(Len(panel.log)))
    => panel.timer = "none"

\* What the sidecar file may hold after the call of p failed, if the call
\* left storage as it was: what was stored when the call was made, or the
\* whole content of another call whose rename succeeded
StoredAfterFailure(p) ==
    {runs[p].seen}
    \cup { [exists |-> TRUE, text |-> runs[q].content] :
              q \in {r \in DOMAIN runs \ {p} : runs[r].pc \in {"renamed", "written"}} }

\* C39: a failed writeSidecar leaves storage as it was: the previously
\* stored aggregate, or the absence of one, is what a read finds
\* afterwards, the temp file is removed, and the error reaches the caller.
C39_FailedWriteLeavesStorage ==
    \A p \in DOMAIN runs :
        runs[p].pc = "failed" =>
            /\ StoredNow \in StoredAfterFailure(p)
            /\ ~existsSync(disk, TempOf(p))

\* A call fails only when its rename found the temp file gone, and its
\* catch block leaves no temp file behind at that moment
FailedOnlyByMissingTemp ==
    \A p \in DOMAIN runs :
        runs[p].pc = "catch" =>
            /\ ~existsSync(disk, TempOf(p))
            /\ \E q \in DOMAIN runs \ {p} : runs[q].pc \in {"renamed", "written", "catch", "failed"}

====
